---- MODULE Spec2Model ----
(***************************************************************************)
(* PyGaSe: reliable datagram connections with selective acks, per-event    *)
(* ack/timeout callbacks, and a time-ordered game state with mergeable     *)
(* updates.                                                                *)
(*                                                                         *)
(* Specifications in this module                                           *)
(*   Spec      one server-side connection record operated by               *)
(*             ServerConnection.loop (receive path), Connection._send_loop *)
(*             (send path) and the application calling dispatch_event;     *)
(*             the peer and the network are the environment (loss,         *)
(*             duplication, reordering).  The store holds GameState().     *)
(*   SpecGS    the GameState / GameStateUpdate algebra driven by a         *)
(*             sequence of updates applied one by one and collapsed.       *)
(*   SpecSync  the same connection with a GameStateStore that receives     *)
(*             updates: ServerConnection._create_next_package and the      *)
(*             client mirror of ClientConnection._recv.                    *)
(*   SpecMerge three updates summed in every grouping and order.           *)
(*   SpecStore GameStateStore.push_update called with updates in any       *)
(*             order of time_order.                                        *)
(*   SpecMachine the game loop and stop() of GameStateMachine in threads   *)
(*             of their own, with a reader of the store.                   *)
(*   SpecServer the server loop with two client addresses, control         *)
(*             datagrams, shutdown and a second Server.run.                *)
(*   SpecRetry Client.dispatch_event with retries on the connection.       *)
(*   SpecCast  Server.dispatch_event to one or all connections, with       *)
(*             retries.                                                    *)
(*   SpecThrottle the congestion avoidance of _throttling_state_machine.   *)
(*   SpecDrain the send loop draining a queue of events of several sizes.  *)
(*   SpecMirror ClientConnection._recv and Client.access_game_state on the *)
(*             locked game state of the client.                            *)
(*   SpecWrap  the send path started just before the sequence wraps.       *)
(*   SpecSqn   Sqn.__sub__ on pairs of sequence numbers.                   *)
(*   SpecOld   datagrams received after runs of later packages were lost.  *)
(*   SpecCallbacks several events with callbacks sent in several packages. *)
(*   SpecEvents the event loop handling the events of accepted packages.   *)
(*   SpecShared the store with nested dictionaries shared by reference.    *)
(*   SpecLag   a client whose time_order is older than the update cache.   *)
(*   SpecClient the tasks of ClientConnection.loop.                        *)
(*   SpecAck   SpecCast with the acknowledgement of the dispatched events. *)
(***************************************************************************)
EXTENDS Integers, Sequences, FiniteSets, TLC

(***************************************************************************)
(* Bounds of the model                                                     *)
(***************************************************************************)
MaxPeerSeq == 3       \* datagrams the peer sends
MaxLocalSeq == 1      \* packages the connection sends
MaxDispatch == 1      \* dispatch_event calls by the application
MaxTime == 6          \* seconds the clock runs
TickStep == 2         \* seconds between two readings of the clock
MaxUpdates == 2       \* updates applied to one state (SpecGS)
MaxPush == 1          \* push_update calls on the store (SpecSync)
MaxServerPackages == 2  \* packages the connection sends (SpecSync)
MaxClientPackages == 1  \* datagrams the peer sends (SpecSync)
MaxStorePush == 3     \* push_update calls on the store (SpecStore)
MaxTicks == 3         \* iterations of the game loop (SpecMachine)
MaxStopWait == 2      \* iterations of the game loop that fit into stop's timeout
MaxServerRuns == 2    \* calls of Server.run (SpecServer)
MaxRetries == 2       \* retries of Client.dispatch_event (SpecRetry)
MaxRetryPackages == 2 \* packages the connection sends (SpecRetry)
MaxRetryTime == 4     \* seconds the clock runs (SpecRetry)
MaxClientDispatch == 1 \* Client.dispatch_event calls by the application (SpecRetry)
MaxClientSeq == 2      \* packages the client connection sends (SpecClient)
MaxClientTime == 12    \* seconds the clock runs (SpecClient)
MaxLagPush == 103     \* push_update calls on the store (SpecLag)
MaxLagChoice == 3     \* pushes that change an attribute, and time_orders of clients (SpecLag)
MaxSharedPush == 3    \* push_update calls on the store (SpecShared)
MaxSharedPackages == 2 \* packages built from the store (SpecShared)
MaxCallbackDispatch == 3 \* dispatch_event calls by the application (SpecCallbacks)
MaxCallbackPackages == 2 \* packages the connection sends (SpecCallbacks)
MaxCallbackPeer == 2  \* datagrams the peer sends (SpecCallbacks)
MaxCallbackTime == 2  \* seconds the clock runs (SpecCallbacks)
MaxEventPeer == 3     \* datagrams the peer sends (SpecEvents)
MaxCasts == 2         \* Server.dispatch_event calls by the application (SpecCast)
MaxOldPeerSeq == 36   \* the last sequence the peer sends (SpecOld)
MaxOldDatagrams == 3  \* peer datagrams that reach the network (SpecOld)
MaxWrapPackages == 3  \* packages sent around the wrap of the sequence (SpecWrap)
MaxMirrorUpdates == 3 \* packages the client applies to its mirror (SpecMirror)
MaxDrainEvents == 5   \* sized events the application dispatches (SpecDrain)
MaxDrainPackages == 2 \* send steps of the connection (SpecDrain)
MaxMonitorTicks == 12  \* ticks of the congestion avoidance monitor (SpecThrottle)
MaxJitter == 1        \* quarter seconds a sleep of the monitor may take longer

(***************************************************************************)
(* Program constants                                                       *)
(***************************************************************************)
max_sequence == 65535        \* Sqn._max_sequence for _bytesize = 2
BitfieldWidth == 32          \* "0" * 32
PackageTimeout == 1          \* Package.timeout, seconds
ConnectionTimeout == 5       \* Connection.timeout, seconds
MaxEventsPerPackage == 5     \* len(package.events) < 5
update_cache_size == 100     \* GameStateStore._update_cache_size
Paused == 0                  \* GameStatus.get("Paused")
Active == 1                  \* GameStatus.get("Active")

(***************************************************************************)
(* pygase.utils.Sqn                                                        *)
(***************************************************************************)
\* Sqn.__add__
\* an addition that wraps like an unsigned integer of two bytes, 65535 + 1 = 0
SqnAddModulo(a, k) == (a + k) % (max_sequence + 1)

SqnAdd(a, k) ==
    LET result == a + k
    IN  IF result > max_sequence THEN result - max_sequence ELSE result

\* a signed distance that wraps at 2^16 instead of at max_sequence
SqnSubModulo(a, b) ==
    LET result == a - b
        threshold == (max_sequence - 1) \div 2
    IN  IF result > threshold THEN result - (max_sequence + 1)
        ELSE IF result < -threshold THEN result + (max_sequence + 1)
        ELSE result

\* Sqn.__sub__ : signed distance; threshold = (max_sequence - 1) / 2
SqnSub(a, b) ==
    LET result == a - b
        threshold == (max_sequence - 1) \div 2
    IN  IF result > threshold THEN result - max_sequence
        ELSE IF result < -threshold THEN result + max_sequence
        ELSE result

\* Sqn.__lt__ : int(self) < int(self) + (other - self)
SqnLt(a, b) == a < a + SqnSub(b, a)

\* Sqn.__gt__ : int(self) > int(self) + (other - self)
SqnGt(a, b) == a > a + SqnSub(b, a)

(***************************************************************************)
(* Python string helpers used on ack_bitfield.  A bitfield is a sequence   *)
(* of 0/1 characters, index 0 of the Python string is element 1.           *)
(***************************************************************************)
Zeros(n) == [i \in 1..n |-> 0]

\* str.zfill(width)
ZFill(s, width) == IF Len(s) >= width THEN s ELSE Zeros(width - Len(s)) \o s

\* s[:k] for any integer k (negative k counts from the end)
SliceTo(s, k) ==
    LET stop == IF k < 0 THEN (IF Len(s) + k < 0 THEN 0 ELSE Len(s) + k)
                ELSE (IF k > Len(s) THEN Len(s) ELSE k)
    IN  SubSeq(s, 1, stop)

\* s[k:] for k >= 0
SliceFrom(s, k) == IF k >= Len(s) THEN << >> ELSE SubSeq(s, k + 1, Len(s))

(***************************************************************************)
(* Connection._update_remote_info                                          *)
(* Returns the new (remote_sequence, ack_bitfield) and the exception that  *)
(* leaves the function, "none" when it returns normally.                   *)
(***************************************************************************)
\* _update_remote_info that treats every newer sequence like the next one:
\* "1" + ack_bitfield[:-1] whatever the distance
UpdateRemoteInfoShiftsOne(rs, bf, received_sequence) ==
    IF rs = 0
    THEN [remote_sequence |-> received_sequence, ack_bitfield |-> bf, error |-> "none"]
    ELSE
    LET sequence_diff == SqnSub(rs, received_sequence)
    IN  IF sequence_diff < 0
        THEN [remote_sequence |-> received_sequence,
              ack_bitfield |-> <<1>> \o SliceTo(bf, -1),
              error |-> "none"]
        ELSE IF sequence_diff = 0
        THEN [remote_sequence |-> rs, ack_bitfield |-> bf, error |-> "DuplicateSequenceError"]
        ELSE IF sequence_diff - 1 >= Len(bf)
             THEN [remote_sequence |-> rs, ack_bitfield |-> bf, error |-> "IndexError"]
             ELSE IF bf[sequence_diff] = 1
             THEN [remote_sequence |-> rs, ack_bitfield |-> bf, error |-> "DuplicateSequenceError"]
             ELSE [remote_sequence |-> rs,
                   ack_bitfield |-> SliceTo(bf, sequence_diff - 1) \o <<1>> \o SliceFrom(bf, sequence_diff),
                   error |-> "none"]

UpdateRemoteInfo(rs, bf, received_sequence) ==
    IF rs = 0
    THEN [remote_sequence |-> received_sequence, ack_bitfield |-> bf, error |-> "none"]
    ELSE
    LET sequence_diff == SqnSub(rs, received_sequence)
    IN  IF sequence_diff < 0
        THEN [remote_sequence |-> received_sequence,
              ack_bitfield |-> IF sequence_diff = -1
                               THEN <<1>> \o SliceTo(bf, -1)
                               ELSE ZFill(SliceTo(bf, sequence_diff), BitfieldWidth),
              error |-> "none"]
        ELSE IF sequence_diff = 0
        THEN [remote_sequence |-> rs, ack_bitfield |-> bf, error |-> "DuplicateSequenceError"]
        ELSE \* sequence_diff > 0
             IF sequence_diff - 1 >= Len(bf)
             THEN [remote_sequence |-> rs, ack_bitfield |-> bf, error |-> "IndexError"]
             ELSE IF bf[sequence_diff] = 1
             THEN [remote_sequence |-> rs, ack_bitfield |-> bf, error |-> "DuplicateSequenceError"]
             ELSE [remote_sequence |-> rs,
                   ack_bitfield |-> SliceTo(bf, sequence_diff - 1) \o <<1>> \o SliceFrom(bf, sequence_diff),
                   error |-> "none"]

(***************************************************************************)
(* State                                                                   *)
(***************************************************************************)
VARIABLES
    now,                    \* time.time(), whole seconds, read every TickStep seconds
    \* the connection record of the one client address (Connection.__init__)
    in_connections,         \* client_address in server.connections
    host_client,            \* server.host_client: "none" or an address ("client", "other")
    local_sequence,
    remote_sequence,
    ack_bitfield,
    latency,                \* milliseconds
    status,
    last_recv,              \* _last_recv
    pending_acks,           \* _pending_acks, in insertion order: <<[sequence, time]>>
    event_callback_sequence,
    events_with_callbacks,  \* _events_with_callbacks: local sequence -> <<callback sequences>>
    event_callbacks,        \* _event_callbacks: callback sequence -> [ack, timeout] (TRUE: not
                            \*   None), with the event and the retries a retrying timeout
                            \*   callback of Client.dispatch_event holds (0: it holds none)
    outgoing_event_queue,   \* <<[event, callback_sequence]>>
    incoming_event_queue,
    last_client_time_order,
    \* tasks
    server_loop,            \* ServerConnection.loop: "running", "stopped" (break), "failed" (exception)
    send_loops,             \* number of live _send_loop tasks of the connection
    \* environment
    event_wire,             \* events pushed to event_wire._push_event, in order
    sent_packages,          \* packages handed to sock.sendto, in order
    network,                \* datagrams the peer has sent (may be delivered any number of times)
    peer_sequence,          \* the peer's local_sequence
    peer_remote_sequence,   \* the peer's remote_sequence
    peer_ack_bitfield,      \* the peer's ack_bitfield
    peer_recv_loop,         \* the peer's _client_recv_loop
    \* history
    dispatched,             \* number of dispatch_event calls so far
    callback_calls,         \* callback sequence -> [ack, timeout]: invocations so far
    resolved,               \* local sequence -> "acked" | "timedout"
    accepted,               \* sequences for which _update_remote_info returned normally
    carried_by,             \* callback sequence -> local sequence of the package that took its event
    recv_call,              \* the latest _recv call: [sequence, ack, error, was_accepted, in_window]
    dispatch_log,           \* Client.dispatch_event calls: <<[event, retries, ack_callback,
                            \*   callback_sequence, parent]>>, parent: the callback sequence
                            \*   whose timeout callback made the call, 0 for the application
    \* GameStateStore of the server and the client's mirror
    game_state,             \* GameStateStore._game_state (its __dict__)
    update_cache,           \* GameStateStore._game_state_update_cache
    mirror,                 \* ClientConnection.game_state_context.ressource (its __dict__)
    mirror_prev,            \* history: the mirror before the latest ClientConnection._recv
    client_recv_call,       \* history: the latest ClientConnection._recv: [package, error]
    \* the update algebra on its own (SpecGS)
    gs_base,                \* the state S the updates start from
    gs_cur,                 \* S after applying U1, ..., Un one after another
    gs_merged,              \* U1 + ... + Un
    gs_prev,                \* the state before Un was applied
    gs_last,                \* Un
    gs_n,                   \* n
    \* three updates and their sums (SpecMerge)
    mg_u, mg_v, mg_w,       \* the updates U, V, W
    mg_uv,                  \* U + V
    mg_vu,                  \* V + U
    mg_left,                \* (U + V) + W
    mg_right,               \* U + (V + W)
    mg_sums,                \* sum() of U, V, W for every iteration order
    mg_done,                \* the sums have been computed
    \* GameStateMachine and the threads that use the store (SpecMachine)
    thread_pc,              \* thread -> where it is in run_game_loop / stop
    thread_update,          \* thread -> the update it has handed to push_update
    thread_items,           \* thread -> the items _recursive_update still has to go through
    game_loop_is_running,   \* _game_loop_is_running
    ticks,                  \* iterations the game loop has begun
    stop_result,            \* the value stop returned
    stop_checks,            \* loop conditions evaluated to true since stop began to wait
    paused_applied,         \* history: stop's update has written game_status
    observed,               \* the state a reader in the server's thread got last
    whole_states,           \* history: the states between two updates
    \* the server across runs and a second client address (SpecServer)
    server_runs,            \* calls of Server.run so far
    other_in_connections,   \* the second address is in server.connections
    first_connection,       \* history: the address the first connection was created for
    control_call,           \* history: the latest datagram without protocol id: [source, data]
    \* Server.dispatch_event over server.connections (SpecCast)
    dispatch_calls,         \* address -> the Connection.dispatch_event calls the connection
                            \*   got: <<[event, ack_for, ack_callback, timeout_callback,
                            \*   retries]>>
    dispatch_error,         \* the exception that left the latest Server.dispatch_event
    timeout_invocations,    \* history: the timeout callbacks called so far, each with the
                            \*   number of calls every connection had before and after
    \* congestion avoidance of the connection (SpecThrottle); times in quarter seconds
    quality,                \* "good" or "bad"
    package_interval,       \* _package_interval in milliseconds
    throttle_state,         \* state of _congestion_avoidance_monitor: [throttle_time,
                            \*   last_quality_change, last_good_quality_milestone]
    monitor_t,              \* the clock the monitor read at its latest tick
    monitor_ticks,          \* ticks of the monitor so far
    good_since,             \* history: the tick since which quality has been good
    \* events with a size in bytes (SpecDrain)
    event_size,             \* event -> len(event.to_bytes()) of the dispatched events
    send_error,             \* the exception that ended the send loop, "none" if none did
    \* the lock of the client's game_state_context around the mirror (SpecMirror)
    lock,                   \* game_state_context.lock: "free", or who holds it ("recv", "user")
    recv_pc,                \* where ClientConnection._recv is: idle, acquire, apply, release
    recv_update,            \* package.game_state_update of the package being received
    recv_items,             \* the items of the update _recursive_update has yet to write
    recv_applied,           \* updates applied to the mirror so far
    user_pc,                \* the user's thread: "outside" or "inside" the with block
    user_entered,           \* history: the mirror as __enter__ returned it
    user_last,              \* history: the mirror as the user read it last inside the block
    mirror_whole,           \* history: the mirror between two updates
    \* Sqn arithmetic on its own (SpecSqn)
    sqn_a,                  \* the left operand
    sqn_b,                  \* the right operand
    sqn_diff,               \* sqn_a - sqn_b once computed
    sqn_done,               \* the difference has been computed
    \* Connection._event_loop (SpecEvents)
    event_loop,             \* the task: "none" before its first iteration, "running", "failed"
    taken_events,           \* history: the events _handle_next_event took from the queue
    handled_events,         \* history: the events passed to event_handler.handle
    \* a GameStateStore whose nested dictionaries are objects (SpecShared)
    heap,                   \* the nested dict objects, by address; a value Ref(r) points to heap[r]
    shared_game_state,      \* store._game_state.__dict__ with nested dicts by reference
    shared_update_cache,    \* store._game_state_update_cache, each update's __dict__ likewise
    built_update,           \* the update of the last package built, by value
    packages_built,         \* calls of _create_next_package so far
    \* a store that outlives its update cache (SpecLag)
    lag_history,            \* history: the state the store had at every time_order, from 0 on
    lag_package,            \* the package built since the last push: the client's time_order,
                            \* the update sent and whether one was built
    \* a ClientConnection operated by ClientConnection.loop (SpecClient)
    client_loop,            \* the loop coroutine: "idle", "running", "stopped"
    client_status,          \* connection.status
    client_last_recv,       \* connection._last_recv
    client_local_sequence,  \* connection.local_sequence
    client_send_loops,      \* live _send_loop tasks of the connection
    client_recv_loop,       \* the _client_recv_loop task: "none", "running", "cancelled"
    client_event_loop,      \* the _event_loop task: "none", "running", "cancelled"
    \* acknowledged events of Server.dispatch_event (SpecAck)
    ack_invocations,        \* history: the ack callbacks _recv invoked: connection, call,
                            \* whether the application's callback ran and its argument
    ack_error               \* the exception that left _recv in an ack callback, or "none"

connVars == <<in_connections, host_client, local_sequence, remote_sequence, ack_bitfield, latency,
              status, last_recv, pending_acks, event_callback_sequence, events_with_callbacks,
              event_callbacks, outgoing_event_queue, incoming_event_queue, last_client_time_order>>

taskVars == <<server_loop, send_loops>>

envVars == <<event_wire, sent_packages, network, peer_sequence, peer_remote_sequence,
             peer_ack_bitfield, peer_recv_loop>>

histVars == <<dispatched, callback_calls, resolved, accepted, carried_by, recv_call,
              dispatch_log>>

storeVars == <<game_state, update_cache>>

mirrorVars == <<mirror, mirror_prev, client_recv_call>>

gsVars == <<gs_base, gs_cur, gs_merged, gs_prev, gs_last, gs_n>>

mergeVars == <<mg_u, mg_v, mg_w, mg_uv, mg_vu, mg_left, mg_right, mg_sums, mg_done>>

machineVars == <<thread_pc, thread_update, thread_items, game_loop_is_running, ticks,
                 stop_result, stop_checks, paused_applied, observed, whole_states>>

serverVars == <<server_runs, other_in_connections, first_connection, control_call>>

castVars == <<dispatch_calls, dispatch_error, timeout_invocations>>

drainVars == <<event_size, send_error>>

sqnVars == <<sqn_a, sqn_b, sqn_diff, sqn_done>>

loopVars == <<event_loop, taken_events, handled_events>>

sharedVars == <<heap, shared_game_state, shared_update_cache, built_update, packages_built>>

lagVars == <<lag_history, lag_package>>

ackVars == <<ack_invocations, ack_error>>

clientVars == <<client_loop, client_status, client_last_recv, client_local_sequence,
                client_send_loops, client_recv_loop, client_event_loop>>

lockVars == <<lock, recv_pc, recv_update, recv_items, recv_applied, user_pc, user_entered,
              user_last, mirror_whole>>

throttleVars == <<quality, package_interval, throttle_state, monitor_t, monitor_ticks,
                  good_since>>

vars == <<now, connVars, taskVars, envVars, histVars, storeVars, mirrorVars, gsVars, mergeVars,
          machineVars, serverVars, castVars, throttleVars, drainVars, lockVars, sqnVars, loopVars, sharedVars, lagVars, clientVars, ackVars>>

(***************************************************************************)
(* Dictionaries are functions; these are dict[key] = value and del.        *)
(***************************************************************************)
DictSet(d, k, v) == [x \in DOMAIN d \cup {k} |-> IF x = k THEN v ELSE d[x]]

DictDel(d, k) == [x \in DOMAIN d \ {k} |-> d[x]]

EmptyDict == [x \in {} |-> 0]

Min(a, b) == IF a < b THEN a ELSE b

\* the datagrams of the peer: a ClientPackage
Datagram(seq, ack, bits, time_order, events) ==
    [sequence |-> seq, ack |-> ack, ack_bitfield |-> bits, time_order |-> time_order, events |-> events]

(***************************************************************************)
(* pygase.gamestate: GameState and GameStateUpdate are their __dict__, a   *)
(* dictionary from attribute names to values.  A value is an integer, the  *)
(* TO_DELETE token or a nested dictionary; the three share one record      *)
(* shape.  time_order and game_status are entries of the dictionary like   *)
(* any attribute, as in the source.                                        *)
(***************************************************************************)
Num(n) == [tag |-> "int", val |-> n, sub |-> EmptyDict]

TO_DELETE == [tag |-> "bytes", val |-> 0, sub |-> EmptyDict]

Dict(d) == [tag |-> "dict", val |-> 0, sub |-> d]

\* obj.time_order
TimeOrder(obj) == obj["time_order"].val

\* GameState(time_order, game_status=Paused, **kwargs)
GameState(time_order, kwargs) ==
    DictSet(DictSet(kwargs, "game_status", Num(Paused)), "time_order", Num(time_order))

\* GameStateUpdate(time_order, **kwargs)
GameStateUpdate(time_order, kwargs) == DictSet(kwargs, "time_order", Num(time_order))

\* _recursive_update(my_dict, update_dict, delete): the value of my_dict after
\* the call.  The loop treats the keys of update_dict independently of each
\* other, so the result is given key by key.
RECURSIVE RecursiveUpdate(_, _, _)
RecursiveUpdate(my_dict, update_dict, delete) ==
    LET deleted == {key \in DOMAIN update_dict :
                        update_dict[key] = TO_DELETE /\ delete /\ key \in DOMAIN my_dict}
        recurse(key) == /\ update_dict[key].tag = "dict"
                        /\ key \in DOMAIN my_dict
                        /\ my_dict[key].tag = "dict"
    IN  [key \in (DOMAIN my_dict \cup DOMAIN update_dict) \ deleted |->
            IF key \notin DOMAIN update_dict THEN my_dict[key]
            ELSE IF recurse(key)
            THEN Dict(RecursiveUpdate(my_dict[key].sub, update_dict[key].sub, delete))
            ELSE update_dict[key]]

\* GameStateUpdate.__add__(self, other): the update that is returned
Add(self, other) ==
    IF SqnGt(TimeOrder(other), TimeOrder(self))
    THEN RecursiveUpdate(self, other, FALSE)
    ELSE RecursiveUpdate(other, self, FALSE)

\* __radd__ without the comparison of the time orders
RaddUnguarded(self, other) == RecursiveUpdate(other, self, TRUE)

\* GameStateUpdate.__radd__(self, other): state other += update self
Radd(self, other) ==
    IF SqnGt(TimeOrder(self), TimeOrder(other))
    THEN RecursiveUpdate(other, self, TRUE)
    ELSE other

\* sum((upd for upd in update_cache if upd > update_base), update_base): the
\* generator is lazy and __add__ returns update_base itself, changed in
\* place, so each filter sees the time_order the base has reached.
RECURSIVE SumUpdates(_, _)
SumUpdates(cache, update_base) ==
    IF cache = << >> THEN update_base
    ELSE IF Len(cache) = 1
    THEN LET upd == Head(cache)
             \* update_base after the addition, with all its values computed
             \* before the next addition reads them
             added == Add(update_base, upd)
         IN  IF SqnGt(TimeOrder(upd), TimeOrder(update_base))
             THEN (IF added = added THEN added ELSE update_base)
             ELSE update_base
    ELSE \* the iteration over the first half of the list, then over the rest
         LET half == Len(cache) \div 2
             first == SumUpdates(SubSeq(cache, 1, half), update_base)
         IN  IF first = first
             THEN SumUpdates(SubSeq(cache, half + 1, Len(cache)), first)
             ELSE update_base

\* the update of ServerConnection._create_next_package
CreateUpdate(client_time_order, state, cache) ==
    IF client_time_order = 0
    THEN GameStateUpdate(TimeOrder(state), DictDel(state, "time_order"))
    ELSE SumUpdates(cache, GameStateUpdate(client_time_order, EmptyDict))

\* GameStateStore.push_update: the new [game_state, update_cache]
PushUpdate(state, cache, update) ==
    LET appended == Append(cache, update)
    IN  [update_cache |-> IF Len(appended) > update_cache_size THEN Tail(appended) ELSE appended,
         game_state |-> IF SqnGt(TimeOrder(update), TimeOrder(state))
                        THEN Radd(update, state)
                        ELSE state]

\* the attribute dictionaries the model draws states and updates from
StateAttributes ==
    { EmptyDict,
      [k \in {"foo"} |-> Num(1)],
      [k \in {"foo"} |-> Dict([j \in {"a"} |-> Num(1)])],
      [k \in {"foo", "bar"} |-> Num(1)] }

FooValues ==
    { Num(1), Num(2), TO_DELETE,
      Dict([j \in {"a"} |-> Num(2)]),
      Dict([j \in {"b"} |-> Num(2)]),
      Dict([j \in {"a"} |-> TO_DELETE]) }

BarValues == { Num(2), TO_DELETE }

UpdateAttributes ==
    { [k \in {"foo"} |-> v] : v \in FooValues } \cup
    { [k \in {"bar"} |-> v] : v \in BarValues } \cup
    { [k \in {"foo", "bar"} |-> IF k = "foo" THEN v ELSE w] : v \in FooValues, w \in BarValues }

\* time orders a store can have when a client connects
StartTimeOrders == {0, 1, 32767, 32768, 65535}

(***************************************************************************)
(* Congestion avoidance: class attributes of Connection.  Times are in     *)
(* quarter seconds, latency and package intervals in milliseconds.         *)
(***************************************************************************)
max_throttle_time == 240
min_throttle_time == 4
latency_threshold == 250
package_intervals == [good |-> 25, bad |-> 50]

Max(a, b) == IF a > b THEN a ELSE b

(***************************************************************************)
(* Connection._update_latency, in milliseconds (rtt in seconds)            *)
(***************************************************************************)
UpdateLatency(lat, rtt) == lat + ((rtt * 1000 - lat) \div 10)

(***************************************************************************)
(* Connection._recv, the loop over list(self._pending_acks).               *)
(* acc holds the fields the loop changes; kind is "ack" or "timeout".      *)
(***************************************************************************)
\* Connection.dispatch_event(event, ack_callback, timeout_callback) on the fields in acc
ConnectionDispatch(acc, event, ack_callback, timeout_callback, retries) ==
    LET with_callback == ack_callback \/ timeout_callback
        callback_sequence == IF with_callback THEN SqnAdd(acc.event_callback_sequence, 1) ELSE 0
    IN  [acc EXCEPT
            !.event_callback_sequence = IF with_callback THEN callback_sequence ELSE @,
            !.event_callbacks =
                IF with_callback
                THEN DictSet(@, callback_sequence,
                             [ack |-> ack_callback, timeout |-> timeout_callback,
                              event |-> event, retries |-> retries])
                ELSE @,
            !.callback_calls =
                IF with_callback
                THEN DictSet(@, callback_sequence, [ack |-> 0, timeout |-> 0])
                ELSE @,
            !.outgoing_event_queue =
                Append(@, [event |-> event, callback_sequence |-> callback_sequence])]

\* Client.dispatch_event(event, retries=retries, ack_callback=ack_callback)
ClientDispatch(acc, event, retries, ack_callback, parent) ==
    LET acc1 == ConnectionDispatch(acc, event, ack_callback, retries > 0, retries)
    IN  [acc1 EXCEPT !.dispatch_log =
            Append(@, [event |-> event, retries |-> retries, ack_callback |-> ack_callback,
                       callback_sequence |-> acc1.outgoing_event_queue[
                                                 Len(acc1.outgoing_event_queue)].callback_sequence,
                       parent |-> parent])]

\* the timeout callback that dispatches again without decreasing retries
TimeoutCallbackSameRetries(callback, event_sequence, acc) ==
    IF callback.retries > 0
    THEN ClientDispatch(acc, callback.event, callback.retries, callback.ack, event_sequence)
    ELSE acc

\* self._event_callbacks[event_sequence]["timeout"](): the lambda of
\* Client.dispatch_event if the callback holds retries, any other callable otherwise
TimeoutCallback(callback, event_sequence, acc) ==
    IF callback.retries > 0
    THEN ClientDispatch(acc, callback.event, callback.retries - 1, callback.ack, event_sequence)
    ELSE acc

\* the inner loop calling the timeout callback in the ack branch as well
RECURSIVE InvokeCallbacksRetryOnAck(_, _, _)
InvokeCallbacksRetryOnAck(event_sequences, kind, acc) ==
    IF event_sequences = << >> THEN acc
    ELSE LET es == Head(event_sequences)
             present == IF kind = "ack" THEN acc.event_callbacks[es].ack
                        ELSE acc.event_callbacks[es].timeout
             called == TimeoutCallback(acc.event_callbacks[es], es, acc)
             acc1 == IF present
                     THEN [called EXCEPT
                             !.callback_calls =
                                 [@ EXCEPT ![es] = IF kind = "ack"
                                                   THEN [@ EXCEPT !.ack = @ + 1]
                                                   ELSE [@ EXCEPT !.timeout = @ + 1]],
                             !.event_callbacks = DictDel(@, es)]
                     ELSE acc
         IN  InvokeCallbacksRetryOnAck(Tail(event_sequences), kind, acc1)

\* the inner loop over self._events_with_callbacks[pending_sequence]
RECURSIVE InvokeCallbacks(_, _, _)
InvokeCallbacks(event_sequences, kind, acc) ==
    IF event_sequences = << >> THEN acc
    ELSE LET es == Head(event_sequences)
             present == IF kind = "ack" THEN acc.event_callbacks[es].ack
                        ELSE acc.event_callbacks[es].timeout
             called == IF kind = "timeout"
                       THEN TimeoutCallback(acc.event_callbacks[es], es, acc)
                       ELSE acc
             acc1 == IF present
                     THEN [called EXCEPT
                             !.callback_calls =
                                 [@ EXCEPT ![es] = IF kind = "ack"
                                                   THEN [@ EXCEPT !.ack = @ + 1]
                                                   ELSE [@ EXCEPT !.timeout = @ + 1]],
                             !.event_callbacks = DictDel(@, es)]
                     ELSE acc
         IN  InvokeCallbacks(Tail(event_sequences), kind, acc1)

\* the body of one branch: callbacks, del _events_with_callbacks[...], del _pending_acks[...]
ResolvePending(pending_sequence, kind, acc) ==
    LET acc1 == IF pending_sequence \in DOMAIN acc.events_with_callbacks
                THEN [InvokeCallbacks(acc.events_with_callbacks[pending_sequence], kind, acc)
                        EXCEPT !.events_with_callbacks = DictDel(@, pending_sequence)]
                ELSE acc
    IN  [acc1 EXCEPT
            !.pending_acks = SelectSeq(@, LAMBDA p : p.sequence # pending_sequence),
            !.resolved = DictSet(@, pending_sequence, IF kind = "ack" THEN "acked" ELSE "timedout")]

\* IsAcked without the test of the character in ack_bitfield
IsAckedIgnoresBits(ack, bits, pending_sequence) ==
    LET sequence_diff == SqnSub(ack, pending_sequence)
    IN  \/ sequence_diff = 0
        \/ (0 < sequence_diff /\ sequence_diff < 32)

\* sequence_diff == 0 or (0 < sequence_diff < 32 and ack_bitfield[sequence_diff - 1] == "1")
IsAcked(ack, bits, pending_sequence) ==
    LET sequence_diff == SqnSub(ack, pending_sequence)
    IN  \/ sequence_diff = 0
        \/ (0 < sequence_diff /\ sequence_diff < 32 /\ bits[sequence_diff] = 1)

\* ResolveAcks with the two del statements of the timeout branch left out
TimeoutWithoutRemoval(pending_sequence, acc) ==
    IF pending_sequence \in DOMAIN acc.events_with_callbacks
    THEN LET es == acc.events_with_callbacks[pending_sequence]
             fires(c) == /\ \E i \in 1..Len(es) : es[i] = c
                         /\ c \in DOMAIN acc.event_callbacks
                         /\ acc.event_callbacks[c].timeout
         IN  [acc EXCEPT !.callback_calls =
                 [c \in DOMAIN @ |-> IF fires(c) THEN [@[c] EXCEPT !.timeout = @ + 1] ELSE @[c]]]
    ELSE acc

RECURSIVE ResolveAcksKeepsTimedOut(_, _, _, _, _)
ResolveAcksKeepsTimedOut(pending_list, ack, bits, t, acc) ==
    IF pending_list = << >> THEN acc
    ELSE LET p == Head(pending_list)
             acc1 == IF IsAcked(ack, bits, p.sequence)
                     THEN ResolvePending(p.sequence, "ack",
                              [acc EXCEPT !.latency = UpdateLatency(@, t - p.time)])
                     ELSE IF t - p.time > PackageTimeout
                     THEN TimeoutWithoutRemoval(p.sequence, acc)
                     ELSE acc
         IN  ResolveAcksKeepsTimedOut(Tail(pending_list), ack, bits, t, acc1)

RECURSIVE ResolveAcks(_, _, _, _, _)
ResolveAcks(pending_list, ack, bits, t, acc) ==
    IF pending_list = << >> THEN acc
    ELSE LET p == Head(pending_list)
             acc1 == IF IsAcked(ack, bits, p.sequence)
                     THEN ResolvePending(p.sequence, "ack",
                              [acc EXCEPT !.latency = UpdateLatency(@, t - p.time)])
                     ELSE IF t - p.time > PackageTimeout
                     THEN ResolvePending(p.sequence, "timeout", acc)
                     ELSE acc
         IN  ResolveAcks(Tail(pending_list), ack, bits, t, acc1)

(***************************************************************************)
(* Initial state: the server is listening, no datagram has arrived yet.    *)
(* The record's fields hold the values Connection.__init__ gives them.     *)
(***************************************************************************)
EventLoopInit ==
    /\ event_loop = "none"
    /\ taken_events = << >>
    /\ handled_events = << >>

SharedInit ==
    /\ heap = << >>
    /\ shared_game_state = GameState(0, EmptyDict)
    /\ shared_update_cache = <<GameStateUpdate(0, EmptyDict)>>
    /\ built_update = EmptyDict
    /\ packages_built = 0

NoPackage == [built |-> FALSE, time_order |-> 0, update |-> EmptyDict]

LagInit ==
    /\ lag_history = <<GameState(0, EmptyDict)>>
    /\ lag_package = NoPackage

\* ClientConnection.__init__: status Disconnected, local_sequence Sqn(0)
ClientConnectionInit ==
    /\ client_loop = "idle"
    /\ client_status = "Disconnected"
    /\ client_last_recv = 0
    /\ client_local_sequence = 0
    /\ client_send_loops = 0
    /\ client_recv_loop = "none"
    /\ client_event_loop = "none"

AckInit ==
    /\ ack_invocations = << >>
    /\ ack_error = "none"

SqnInit(a, b) ==
    /\ sqn_a = a
    /\ sqn_b = b
    /\ sqn_diff = 0
    /\ sqn_done = FALSE

ConnectionInitFrom(sequence) ==
    /\ now = 0
    /\ in_connections = FALSE
    /\ host_client = "none"
    /\ local_sequence = sequence
    /\ remote_sequence = 0
    /\ ack_bitfield = Zeros(BitfieldWidth)
    /\ latency = 0
    /\ status = "Disconnected"
    /\ last_recv = 0
    /\ pending_acks = << >>
    /\ event_callback_sequence = 0
    /\ events_with_callbacks = EmptyDict
    /\ event_callbacks = EmptyDict
    /\ outgoing_event_queue = << >>
    /\ incoming_event_queue = << >>
    /\ last_client_time_order = 0
    /\ server_loop = "running"
    /\ send_loops = 0
    /\ event_wire = << >>
    /\ sent_packages = << >>
    /\ network = {}
    /\ peer_sequence = 0
    /\ peer_remote_sequence = 0
    /\ peer_ack_bitfield = Zeros(BitfieldWidth)
    /\ peer_recv_loop = "running"
    /\ dispatched = 0
    /\ callback_calls = EmptyDict
    /\ resolved = EmptyDict
    /\ accepted = {}
    /\ carried_by = EmptyDict
    /\ recv_call = [sequence |-> 0, ack |-> 0, error |-> "none", was_accepted |-> FALSE,
                    in_window |-> FALSE]
    /\ dispatch_log = << >>
    /\ server_runs = 1
    /\ other_in_connections = FALSE
    /\ first_connection = "none"
    /\ control_call = [source |-> "none", data |-> "none"]
    /\ lock = "free"
    /\ recv_pc = "idle"
    /\ recv_update = GameStateUpdate(0, EmptyDict)
    /\ recv_items = << >>
    /\ recv_applied = 0
    /\ user_pc = "outside"
    /\ user_entered = GameState(0, EmptyDict)
    /\ user_last = GameState(0, EmptyDict)
    /\ mirror_whole = {GameState(0, EmptyDict)}
    /\ event_size = EmptyDict
    /\ send_error = "none"
    /\ quality = "good"
    /\ package_interval = package_intervals["good"]
    /\ throttle_state = [throttle_time |-> min_throttle_time, last_quality_change |-> 0,
                         last_good_quality_milestone |-> 0]
    /\ monitor_t = 0
    /\ monitor_ticks = 0
    /\ good_since = 0
    /\ dispatch_calls = [a \in {"client", "other"} |-> << >>]
    /\ dispatch_error = "none"
    /\ timeout_invocations = << >>

\* Connection.__init__: local_sequence = Sqn(0)
ConnectionInit == ConnectionInitFrom(0)

\* GameStateStore(): GameState() and [GameStateUpdate(0)]
StoreInit ==
    /\ game_state = GameState(0, EmptyDict)
    /\ update_cache = <<GameStateUpdate(0, EmptyDict)>>

\* ClientConnection.__init__: game_state_context = LockedRessource(GameState())
MirrorInit ==
    /\ mirror = GameState(0, EmptyDict)
    /\ mirror_prev = GameState(0, EmptyDict)
    /\ client_recv_call = [package |-> 0, error |-> "none"]

\* no update has been applied yet
AlgebraInit(state) ==
    /\ gs_base = state
    /\ gs_cur = state
    /\ gs_prev = state
    /\ gs_merged = GameStateUpdate(0, EmptyDict)
    /\ gs_last = GameStateUpdate(0, EmptyDict)
    /\ gs_n = 0

\* the updates U, V, W before any sum is computed
MergeInit(U, V, W) ==
    /\ mg_u = U
    /\ mg_v = V
    /\ mg_w = W
    /\ mg_uv = U
    /\ mg_vu = V
    /\ mg_left = U
    /\ mg_right = U
    /\ mg_sums = {}
    /\ mg_done = FALSE

NoUpdate == GameStateUpdate(0, EmptyDict)

\* GameStateMachine.__init__; run_game_loop and stop have not been called
Threads == {"loop", "stop"}

MachineInit ==
    /\ thread_pc = [t \in Threads |-> "idle"]
    /\ thread_update = [t \in Threads |-> NoUpdate]
    /\ thread_items = [t \in Threads |-> << >>]
    /\ game_loop_is_running = FALSE
    /\ ticks = 0
    /\ stop_result = FALSE
    /\ stop_checks = 0
    /\ paused_applied = FALSE
    /\ observed = GameState(0, EmptyDict)
    /\ whole_states = {GameState(0, EmptyDict)}

Init ==
    /\ ConnectionInit
    /\ StoreInit
    /\ MirrorInit
    /\ AlgebraInit(GameState(0, EmptyDict))
    /\ MergeInit(NoUpdate, NoUpdate, NoUpdate)
    /\ MachineInit
    /\ SqnInit(0, 0)
    /\ EventLoopInit
    /\ SharedInit
    /\ LagInit
    /\ ClientConnectionInit
    /\ AckInit

(***************************************************************************)
(* Connection._recv extended by ServerConnection._recv.                    *)
(* Sets every field of the record that _recv may change; an exception of   *)
(* _update_remote_info leaves the call after last_recv and status are set. *)
(***************************************************************************)
\* the fields of the record that the callbacks and dispatch_event work on
Fields ==
    [latency |-> latency,
     event_callbacks |-> event_callbacks,
     events_with_callbacks |-> events_with_callbacks,
     pending_acks |-> pending_acks,
     event_callback_sequence |-> event_callback_sequence,
     outgoing_event_queue |-> outgoing_event_queue,
     callback_calls |-> callback_calls,
     resolved |-> resolved,
     dispatch_log |-> dispatch_log]

InWindow(rs, seq) ==
    rs # 0 /\ SqnSub(rs, seq) >= 0 /\ SqnSub(rs, seq) <= BitfieldWidth

Recv(d) ==
    LET info == UpdateRemoteInfo(remote_sequence, ack_bitfield, d.sequence)
        acc == ResolveAcks(pending_acks, d.ack, d.ack_bitfield, now, Fields)
    IN  /\ last_recv' = now
        /\ status' = "Connected"
        /\ recv_call' = [sequence |-> d.sequence, ack |-> d.ack, error |-> info.error,
                         was_accepted |-> d.sequence \in accepted,
                         in_window |-> InWindow(remote_sequence, d.sequence)]
        /\ IF info.error = "none"
           THEN /\ remote_sequence' = info.remote_sequence
                /\ ack_bitfield' = info.ack_bitfield
                /\ latency' = acc.latency
                /\ event_callbacks' = acc.event_callbacks
                /\ events_with_callbacks' = acc.events_with_callbacks
                /\ pending_acks' = acc.pending_acks
                /\ callback_calls' = acc.callback_calls
                /\ resolved' = acc.resolved
                /\ event_callback_sequence' = acc.event_callback_sequence
                /\ outgoing_event_queue' = acc.outgoing_event_queue
                /\ dispatch_log' = acc.dispatch_log
                /\ incoming_event_queue' = incoming_event_queue \o d.events
                /\ event_wire' = event_wire \o d.events
                /\ last_client_time_order' = d.time_order
                /\ accepted' = accepted \cup {d.sequence}
           ELSE UNCHANGED <<remote_sequence, ack_bitfield, latency, event_callbacks,
                            events_with_callbacks, pending_acks, callback_calls, resolved,
                            event_callback_sequence, outgoing_event_queue, dispatch_log,
                            incoming_event_queue, event_wire, last_client_time_order, accepted>>

(***************************************************************************)
(* ServerConnection.loop, one iteration for a PyGaSe datagram of the       *)
(* client: create the record or restart its sender, then _recv.  Only      *)
(* ProtocolIDMismatchError is caught, so any exception of _recv leaves the *)
(* loop; the scheduler is then torn down with the tasks it still holds.    *)
(***************************************************************************)
ServerLoopPackage ==
    \E d \in network :
        /\ server_loop = "running"
        /\ Recv(d)
        /\ in_connections' = TRUE
        /\ host_client' = IF host_client = "none" THEN "client" ELSE host_client
        /\ first_connection' = IF first_connection = "none" THEN "client" ELSE first_connection
        /\ LET spawned_send == IF ~in_connections \/ status = "Disconnected"
                               THEN send_loops + 1 ELSE send_loops
           IN  IF recv_call'.error = "none"
               THEN /\ send_loops' = spawned_send
                    /\ server_loop' = "running"
               ELSE /\ send_loops' = 0
                    /\ server_loop' = "failed"
        /\ UNCHANGED <<now, local_sequence,
                       sent_packages, network, peer_sequence, peer_remote_sequence,
                       peer_ack_bitfield, peer_recv_loop, dispatched, carried_by,
                       storeVars, mirrorVars, gsVars, mergeVars, machineVars,
                       server_runs, other_in_connections, control_call, castVars, throttleVars, drainVars, lockVars, sqnVars, loopVars, sharedVars, lagVars, clientVars, ackVars>>

(***************************************************************************)
(* ServerConnection.loop, one iteration for a datagram that starts with    *)
(* the protocol id but whose event block cannot be unpacked:               *)
(* ClientPackage.from_datagram raises TypeError (Sendable.from_bytes),     *)
(* which the loop does not catch.                                          *)
(***************************************************************************)
ServerLoopMalformed ==
    /\ server_loop = "running"
    /\ server_loop' = "failed"
    /\ send_loops' = 0
    /\ UNCHANGED <<now, connVars, envVars, histVars, storeVars, mirrorVars, gsVars, mergeVars, machineVars, serverVars, castVars, throttleVars, drainVars, lockVars, sqnVars, loopVars, sharedVars, lagVars, clientVars, ackVars>>

(***************************************************************************)
(* ServerConnection.loop, one iteration for a datagram without the         *)
(* protocol id, sent from the client's address.                            *)
(***************************************************************************)
ControlData == {"shutdown", "shut_me_down", "unknown"}

Addresses == {"client", "other"}

\* the except branch without the comparison with server.host_client
ControlDatagramAnyAddress(source, data) ==
    /\ server_loop = "running"
    /\ IF data = "shutdown" \/ data = "shut_me_down"
       THEN /\ server_loop' = "stopped"
            /\ send_loops' = 0
       ELSE UNCHANGED taskVars
    /\ UNCHANGED <<now, connVars, envVars, histVars, storeVars, mirrorVars, gsVars, mergeVars,
                   machineVars, server_runs, other_in_connections, first_connection, castVars, throttleVars, drainVars, lockVars, sqnVars, loopVars, sharedVars, lagVars, clientVars, ackVars>>

\* the except ProtocolIDMismatchError branch for the bytes data received from source
ControlDatagram(source, data) ==
    /\ server_loop = "running"
    /\ IF \/ (data = "shutdown" /\ source = host_client)
          \/ data = "shut_me_down"
       THEN /\ server_loop' = "stopped"
            /\ send_loops' = 0      \* connection_tasks.cancel_remaining()
       ELSE UNCHANGED taskVars
    /\ UNCHANGED <<now, connVars, envVars, histVars, storeVars, mirrorVars, gsVars, mergeVars,
                   machineVars, server_runs, other_in_connections, first_connection, castVars, throttleVars, drainVars, lockVars, sqnVars, loopVars, sharedVars, lagVars, clientVars, ackVars>>

ServerLoopControl ==
    \E source \in Addresses, data \in ControlData :
        /\ ControlDatagram(source, data)
        /\ UNCHANGED control_call

(***************************************************************************)
(* Connection.dispatch_event, called by the application on the record.     *)
(***************************************************************************)
DispatchEvent ==
    \E ack_callback \in BOOLEAN, timeout_callback \in BOOLEAN :
        /\ server_loop = "running"
        /\ in_connections
        /\ dispatched < MaxDispatch
        /\ dispatched' = dispatched + 1
        /\ LET event == 100 + dispatched + 1
               acc == ConnectionDispatch(Fields, event, ack_callback, timeout_callback, 0)
           IN  /\ event_callback_sequence' = acc.event_callback_sequence
               /\ event_callbacks' = acc.event_callbacks
               /\ callback_calls' = acc.callback_calls
               /\ outgoing_event_queue' = acc.outgoing_event_queue
        /\ UNCHANGED <<now, in_connections, host_client, local_sequence, remote_sequence,
                       ack_bitfield, latency, status, last_recv, pending_acks,
                       events_with_callbacks, incoming_event_queue, last_client_time_order,
                       taskVars, envVars, resolved, accepted, carried_by, recv_call,
                       dispatch_log, storeVars, mirrorVars, gsVars, mergeVars, machineVars, serverVars, castVars, throttleVars, drainVars, lockVars, sqnVars, loopVars, sharedVars, lagVars, clientVars, ackVars>>

(***************************************************************************)
(* Connection._send_next_package                                           *)
(***************************************************************************)
\* self._pending_acks[sequence] = time.time(): a dict keeps the position of a key it holds
PendingSet(pending, seq, t) ==
    IF \E i \in 1..Len(pending) : pending[i].sequence = seq
    THEN [i \in 1..Len(pending) |->
             IF pending[i].sequence = seq THEN [sequence |-> seq, time |-> t] ELSE pending[i]]
    ELSE Append(pending, [sequence |-> seq, time |-> t])

\* SendNextPackage with the callback sequences filed under local_sequence as it was before
\* the increment
SendNextPackageKeyedBefore ==
    LET sequence == SqnAdd(local_sequence, 1)
        n == Min(MaxEventsPerPackage, Len(outgoing_event_queue))
        taken == SubSeq(outgoing_event_queue, 1, n)
        with_callbacks == SelectSeq(taken, LAMBDA e : e.callback_sequence # 0)
        callback_sequences == [i \in 1..Len(with_callbacks) |-> with_callbacks[i].callback_sequence]
        package == [sequence |-> sequence, ack |-> remote_sequence, ack_bitfield |-> ack_bitfield,
                    events |-> [i \in 1..n |-> taken[i].event],
                    game_state_update |->
                        CreateUpdate(last_client_time_order, game_state, update_cache),
                    client_time_order |-> last_client_time_order,
                    store_state |-> game_state]
    IN  /\ local_sequence' = sequence
        /\ outgoing_event_queue' = SubSeq(outgoing_event_queue, n + 1, Len(outgoing_event_queue))
        /\ events_with_callbacks' =
               IF callback_sequences = << >> THEN events_with_callbacks
               ELSE DictSet(events_with_callbacks, local_sequence,
                            (IF local_sequence \in DOMAIN events_with_callbacks
                             THEN events_with_callbacks[local_sequence] ELSE << >>) \o callback_sequences)
        /\ sent_packages' = Append(sent_packages, package)
        /\ pending_acks' = PendingSet(pending_acks, sequence, now)
        /\ carried_by' = [c \in DOMAIN carried_by \cup
                                {callback_sequences[i] : i \in 1..Len(callback_sequences)} |->
                             IF c \in DOMAIN carried_by THEN carried_by[c] ELSE sequence]

SendNextPackage ==
    LET sequence == SqnAdd(local_sequence, 1)
        n == Min(MaxEventsPerPackage, Len(outgoing_event_queue))
        taken == SubSeq(outgoing_event_queue, 1, n)
        with_callbacks == SelectSeq(taken, LAMBDA e : e.callback_sequence # 0)
        callback_sequences == [i \in 1..Len(with_callbacks) |-> with_callbacks[i].callback_sequence]
        \* ServerConnection._create_next_package; client_time_order and store_state
        \* record what the package was built from
        package == [sequence |-> sequence, ack |-> remote_sequence, ack_bitfield |-> ack_bitfield,
                    events |-> [i \in 1..n |-> taken[i].event],
                    game_state_update |->
                        CreateUpdate(last_client_time_order, game_state, update_cache),
                    client_time_order |-> last_client_time_order,
                    store_state |-> game_state]
    IN  /\ local_sequence' = sequence
        /\ outgoing_event_queue' = SubSeq(outgoing_event_queue, n + 1, Len(outgoing_event_queue))
        /\ events_with_callbacks' =
               IF callback_sequences = << >> THEN events_with_callbacks
               ELSE DictSet(events_with_callbacks, sequence,
                            (IF sequence \in DOMAIN events_with_callbacks
                             THEN events_with_callbacks[sequence] ELSE << >>) \o callback_sequences)
        /\ sent_packages' = Append(sent_packages, package)
        /\ pending_acks' = PendingSet(pending_acks, sequence, now)
        /\ carried_by' = [c \in DOMAIN carried_by \cup
                                {callback_sequences[i] : i \in 1..Len(callback_sequences)} |->
                             IF c \in DOMAIN carried_by THEN carried_by[c] ELSE sequence]

(***************************************************************************)
(* Connection._send_loop, one iteration of a live sender task.             *)
(***************************************************************************)
\* the timeout branch without its break: the task stays alive
SendLoopTimeoutKeepsRunning ==
    /\ send_loops > 0
    /\ now - last_recv > ConnectionTimeout
    /\ status' = "Disconnected"
    /\ UNCHANGED <<now, in_connections, host_client, local_sequence, remote_sequence,
                   ack_bitfield, latency, last_recv, pending_acks, event_callback_sequence,
                   events_with_callbacks, event_callbacks, outgoing_event_queue,
                   incoming_event_queue, last_client_time_order, taskVars,
                   envVars, histVars, storeVars, mirrorVars, gsVars, mergeVars, machineVars, serverVars, castVars, throttleVars, drainVars, lockVars, sqnVars, loopVars, sharedVars, lagVars, clientVars, ackVars>>

SendLoopTimeout ==
    /\ send_loops > 0
    /\ now - last_recv > ConnectionTimeout
    /\ status' = "Disconnected"
    /\ send_loops' = send_loops - 1
    /\ UNCHANGED <<now, in_connections, host_client, local_sequence, remote_sequence,
                   ack_bitfield, latency, last_recv, pending_acks, event_callback_sequence,
                   events_with_callbacks, event_callbacks, outgoing_event_queue,
                   incoming_event_queue, last_client_time_order, server_loop,
                   envVars, histVars, storeVars, mirrorVars, gsVars, mergeVars, machineVars, serverVars, castVars, throttleVars, drainVars, lockVars, sqnVars, loopVars, sharedVars, lagVars, clientVars, ackVars>>

SendLoop ==
    /\ send_loops > 0
    /\ ~(now - last_recv > ConnectionTimeout)
    /\ SendNextPackage
    /\ UNCHANGED <<now, in_connections, host_client, remote_sequence, ack_bitfield, latency,
                   status, last_recv, event_callback_sequence, event_callbacks,
                   incoming_event_queue, last_client_time_order, taskVars, event_wire,
                   network, peer_sequence, peer_remote_sequence, peer_ack_bitfield,
                   peer_recv_loop, dispatched, callback_calls, resolved, accepted, recv_call,
                   dispatch_log, storeVars, mirrorVars, gsVars, mergeVars, machineVars, serverVars, castVars, throttleVars, drainVars, lockVars, sqnVars, loopVars, sharedVars, lagVars, clientVars, ackVars>>

SendLoopSend ==
    /\ local_sequence < MaxLocalSeq
    /\ SendLoop

(***************************************************************************)
(* The peer: a client connection.  It sends ClientPackages whose header    *)
(* reports what it has received and which carry the time_order of its      *)
(* mirror, keeps its own remote bookkeeping with the same                  *)
(* _update_remote_info, and adds the update of every ServerPackage that    *)
(* Connection._recv lets through to the mirror (ClientConnection._recv).   *)
(***************************************************************************)
\* the peer dispatches one event per send interval; each goes into exactly one package
PeerEvents(sequence) == <<10 * sequence + 1>>

ClientSendNextPackage ==
        /\ server_loop = "running"
        /\ peer_sequence' = SqnAdd(peer_sequence, 1)
        /\ network' = network \cup
               {Datagram(peer_sequence', peer_remote_sequence, peer_ack_bitfield,
                         TimeOrder(mirror), PeerEvents(peer_sequence'))}
        /\ UNCHANGED <<now, connVars, taskVars, event_wire, sent_packages,
                       peer_remote_sequence, peer_ack_bitfield, peer_recv_loop, histVars,
                       storeVars, mirrorVars, gsVars, mergeVars, machineVars, serverVars, castVars, throttleVars, drainVars, lockVars, sqnVars, loopVars, sharedVars, lagVars, clientVars, ackVars>>

PeerSend ==
    /\ peer_sequence < MaxPeerSeq
    /\ ClientSendNextPackage

PeerReceive ==
    \E i \in 1..Len(sent_packages) :
        /\ server_loop = "running"
        /\ peer_sequence # 0
        /\ peer_recv_loop = "running"
        /\ LET info == UpdateRemoteInfo(peer_remote_sequence, peer_ack_bitfield,
                                        sent_packages[i].sequence)
           IN  /\ IF info.error = "none"
                  THEN /\ peer_remote_sequence' = info.remote_sequence
                       /\ peer_ack_bitfield' = info.ack_bitfield
                       /\ peer_recv_loop' = "running"
                       /\ mirror' = Radd(sent_packages[i].game_state_update, mirror)
                  ELSE /\ peer_recv_loop' = "failed"
                       /\ UNCHANGED <<peer_remote_sequence, peer_ack_bitfield, mirror>>
               /\ mirror_prev' = mirror
               /\ client_recv_call' = [package |-> i, error |-> info.error]
        /\ UNCHANGED <<now, connVars, taskVars, event_wire, sent_packages, network,
                       peer_sequence, histVars, storeVars, gsVars, mergeVars, machineVars, serverVars, castVars, throttleVars, drainVars, lockVars, sqnVars, loopVars, sharedVars, lagVars, clientVars, ackVars>>

Tick ==
    /\ server_loop = "running"
    /\ now + TickStep <= MaxTime
    /\ now' = now + TickStep
    /\ UNCHANGED <<connVars, taskVars, envVars, histVars, storeVars, mirrorVars, gsVars, mergeVars, machineVars, serverVars, castVars, throttleVars, drainVars, lockVars, sqnVars, loopVars, sharedVars, lagVars, clientVars, ackVars>>

Next ==
    \/ ServerLoopPackage
    \/ ServerLoopControl
    \/ ServerLoopMalformed
    \/ DispatchEvent
    \/ SendLoopTimeout
    \/ SendLoopSend
    \/ PeerSend
    \/ PeerReceive
    \/ Tick

Spec == Init /\ [][Next]_vars

(***************************************************************************)
(* SpecSync: the connection with a store that progresses.                  *)
(* GameStateMachine.run_game_loop pushes one update per iteration, with    *)
(* the time_order following the state's.                                   *)
(***************************************************************************)
PushAttributes ==
    { [k \in {"foo"} |-> Num(2)],
      [k \in {"foo"} |-> TO_DELETE],
      [k \in {"foo"} |-> Dict([j \in {"b"} |-> Num(2)])] }

StoreAttributes ==
    { EmptyDict,
      [k \in {"foo"} |-> Dict([j \in {"a"} |-> Num(1)])] }

SyncSendLoopSend ==
    /\ local_sequence < MaxServerPackages
    /\ SendLoop

SyncPeerSend ==
    /\ peer_sequence < MaxClientPackages
    /\ ClientSendNextPackage

GameLoopIteration ==
    \E update_dict \in PushAttributes :
        /\ Len(update_cache) - 1 < MaxPush
        /\ LET update == GameStateUpdate(SqnAdd(TimeOrder(game_state), 1), update_dict)
               store == PushUpdate(game_state, update_cache, update)
           IN  /\ game_state' = store.game_state
               /\ update_cache' = store.update_cache
        /\ UNCHANGED <<now, connVars, taskVars, envVars, histVars, mirrorVars, gsVars, mergeVars, machineVars, serverVars, castVars, throttleVars, drainVars, lockVars, sqnVars, loopVars, sharedVars, lagVars, clientVars, ackVars>>

\* the application constructs the store with any initial state
InitSync ==
    /\ ConnectionInit
    /\ MirrorInit
    /\ AlgebraInit(GameState(0, EmptyDict))
    /\ \E time_order \in StartTimeOrders, kwargs \in StoreAttributes :
           game_state = GameState(time_order, kwargs)
    /\ update_cache = <<GameStateUpdate(0, EmptyDict)>>
    /\ MergeInit(NoUpdate, NoUpdate, NoUpdate)
    /\ MachineInit
    /\ SqnInit(0, 0)
    /\ EventLoopInit
    /\ SharedInit
    /\ LagInit
    /\ ClientConnectionInit
    /\ AckInit

NextSync ==
    \/ ServerLoopPackage
    \/ SyncSendLoopSend
    \/ SyncPeerSend
    \/ PeerReceive
    \/ GameLoopIteration

SpecSync == InitSync /\ [][NextSync]_vars

(***************************************************************************)
(* SpecGS: a state S and updates U1, U2, ... with strictly increasing      *)
(* time orders, each newer than S.  Every update is added to the state     *)
(* (state += update) and to the sum of the updates before it.              *)
(***************************************************************************)
StepSizes == {1, 2}

ApplyUpdate ==
    \E step \in StepSizes, kwargs \in UpdateAttributes :
        /\ gs_n < MaxUpdates
        /\ LET update == GameStateUpdate(SqnAdd(TimeOrder(gs_cur), step), kwargs)
           IN  /\ gs_prev' = gs_cur
               /\ gs_last' = update
               /\ gs_cur' = Radd(update, gs_cur)
               /\ gs_merged' = IF gs_n = 0 THEN update ELSE Add(gs_merged, update)
        /\ gs_n' = gs_n + 1
        /\ UNCHANGED <<now, connVars, taskVars, envVars, histVars, storeVars, mirrorVars,
                       gs_base, mergeVars, machineVars, serverVars, castVars, throttleVars, drainVars, lockVars, sqnVars, loopVars, sharedVars, lagVars, clientVars, ackVars>>

InitGS ==
    /\ ConnectionInit
    /\ StoreInit
    /\ MirrorInit
    /\ \E time_order \in StartTimeOrders, kwargs \in StateAttributes :
           AlgebraInit(GameState(time_order, kwargs))
    /\ MergeInit(NoUpdate, NoUpdate, NoUpdate)
    /\ MachineInit
    /\ SqnInit(0, 0)
    /\ EventLoopInit
    /\ SharedInit
    /\ LagInit
    /\ ClientConnectionInit
    /\ AckInit

NextGS == ApplyUpdate

SpecGS == InitGS /\ [][NextGS]_vars

(***************************************************************************)
(* SpecMerge: three updates U, V, W with pairwise distinct time orders and *)
(* the sums GameStateUpdate.__add__ gives for them, each computed on fresh *)
(* copies of the operands.                                                 *)
(***************************************************************************)
MergeTimeOrders == {0, 1, 2, 3, 65535}

MergeAttributes ==
    { EmptyDict,
      [k \in {"foo"} |-> Num(1)],
      [k \in {"foo"} |-> TO_DELETE],
      [k \in {"foo"} |-> Dict([j \in {"a"} |-> Num(1)])],
      [k \in {"foo"} |-> Dict([j \in {"b"} |-> Num(2)])] }

\* sum(updates): 0 + updates[0] is updates[0] (__radd__ with an int), then __add__
RECURSIVE SumFrom(_, _)
SumFrom(total, updates) ==
    IF updates = << >> THEN total
    ELSE SumFrom(Add(total, Head(updates)), Tail(updates))

Sum(updates) == SumFrom(Head(updates), Tail(updates))

\* the iteration orders of a set of three updates
Orders(U, V, W) ==
    { <<U, V, W>>, <<U, W, V>>, <<V, U, W>>, <<V, W, U>>, <<W, U, V>>, <<W, V, U>> }

MergeUpdates ==
    /\ ~mg_done
    /\ mg_done' = TRUE
    /\ mg_uv' = Add(mg_u, mg_v)
    /\ mg_vu' = Add(mg_v, mg_u)
    /\ mg_left' = Add(Add(mg_u, mg_v), mg_w)
    /\ mg_right' = Add(mg_u, Add(mg_v, mg_w))
    /\ mg_sums' = { Sum(order) : order \in Orders(mg_u, mg_v, mg_w) }
    /\ UNCHANGED <<now, connVars, taskVars, envVars, histVars, storeVars, mirrorVars, gsVars,
                   mg_u, mg_v, mg_w, machineVars, serverVars, castVars, throttleVars, drainVars, lockVars, sqnVars, loopVars, sharedVars, lagVars, clientVars, ackVars>>

InitMerge ==
    /\ ConnectionInit
    /\ StoreInit
    /\ MirrorInit
    /\ AlgebraInit(GameState(0, EmptyDict))
    /\ \E tu \in MergeTimeOrders, tv \in MergeTimeOrders, tw \in MergeTimeOrders :
           /\ tu # tv /\ tv # tw /\ tu # tw
           /\ \E au \in MergeAttributes, av \in MergeAttributes, aw \in MergeAttributes :
                  MergeInit(GameStateUpdate(tu, au), GameStateUpdate(tv, av),
                            GameStateUpdate(tw, aw))
    /\ MachineInit
    /\ SqnInit(0, 0)
    /\ EventLoopInit
    /\ SharedInit
    /\ LagInit
    /\ ClientConnectionInit
    /\ AckInit

NextMerge == MergeUpdates

SpecMerge == InitMerge /\ [][NextMerge]_vars

(***************************************************************************)
(* SpecStore: a GameStateStore() and its callers.  push_update is a public *)
(* method; it takes whatever update it is handed.                          *)
(***************************************************************************)
PushTimeOrders == {1, 2, 3}

StorePush ==
    \E time_order \in PushTimeOrders, update_dict \in PushAttributes :
        /\ Len(update_cache) - 1 < MaxStorePush
        /\ LET store == PushUpdate(game_state, update_cache,
                                   GameStateUpdate(time_order, update_dict))
           IN  /\ game_state' = store.game_state
               /\ update_cache' = store.update_cache
        /\ UNCHANGED <<now, connVars, taskVars, envVars, histVars, mirrorVars, gsVars, mergeVars, machineVars, serverVars, castVars, throttleVars, drainVars, lockVars, sqnVars, loopVars, sharedVars, lagVars, clientVars, ackVars>>

NextStore == StorePush

SpecStore == Init /\ [][NextStore]_vars

(***************************************************************************)
(* SpecMachine: GameStateMachine.run_game_loop in its own thread           *)
(* (run_game_loop_in_thread), stop called from another thread, and a       *)
(* reader of the store in the server's thread.  The store has no lock, so  *)
(* the statements of push_update and the items _recursive_update goes      *)
(* through interleave with the other threads.                              *)
(***************************************************************************)
\* update_dict.items(): the keyword arguments, then time_order (set last by __init__)
Items(update) ==
    LET kwargs == DOMAIN update \ {"time_order"}
    IN  (IF kwargs = {} THEN << >> ELSE <<CHOOSE key \in kwargs : TRUE>>) \o <<"time_order">>

\* where a thread goes on when push_update has returned
AfterPush(t) ==
    IF t = "stop" THEN "wait"
    ELSE IF game_loop_is_running THEN "while" ELSE "enter"

otherVars == <<now, connVars, taskVars, envVars, histVars, mirrorVars, gsVars, mergeVars,
               serverVars, castVars, throttleVars, drainVars, lockVars, sqnVars, loopVars, sharedVars, lagVars, clientVars, ackVars>>

\* run_game_loop: the game is Paused, so an update that sets Active is pushed
LoopStart ==
    /\ thread_pc["loop"] = "idle"
    /\ IF game_state["game_status"] = Num(Paused)
       THEN /\ thread_update' = [thread_update EXCEPT !["loop"] =
                    GameStateUpdate(SqnAdd(TimeOrder(game_state), 1),
                                    [k \in {"game_status"} |-> Num(Active)])]
            /\ thread_pc' = [thread_pc EXCEPT !["loop"] = "append"]
       ELSE /\ thread_pc' = [thread_pc EXCEPT !["loop"] = "enter"]
            /\ UNCHANGED thread_update
    /\ UNCHANGED <<otherVars, storeVars, thread_items, game_loop_is_running, ticks,
                   stop_result, stop_checks, paused_applied, observed, whole_states>>

\* game_state = get_game_state(); self._game_loop_is_running = True
LoopEnter ==
    /\ thread_pc["loop"] = "enter"
    /\ game_loop_is_running' = TRUE
    /\ thread_pc' = [thread_pc EXCEPT !["loop"] = "while"]
    /\ UNCHANGED <<otherVars, storeVars, thread_update, thread_items, ticks,
                   stop_result, stop_checks, paused_applied, observed, whole_states>>

\* while game_state.game_status == Active: ... ; self._game_loop_is_running = False
LoopWhile ==
    /\ thread_pc["loop"] = "while"
    /\ IF game_state["game_status"] = Num(Active)
       THEN /\ ticks < MaxTicks
            /\ thread_pc' = [thread_pc EXCEPT !["loop"] = "step"]
            /\ stop_checks' = IF thread_pc["stop"] = "wait" THEN stop_checks + 1 ELSE stop_checks
            /\ UNCHANGED game_loop_is_running
       ELSE /\ thread_pc' = [thread_pc EXCEPT !["loop"] = "exited"]
            /\ game_loop_is_running' = FALSE
            /\ UNCHANGED stop_checks
    /\ UNCHANGED <<otherVars, storeVars, thread_update, thread_items, ticks,
                   stop_result, paused_applied, observed, whole_states>>

\* update_dict = self.time_step(game_state, dt); GameStateUpdate(game_state.time_order + 1, **update_dict)
LoopStep ==
    \E update_dict \in PushAttributes :
        /\ thread_pc["loop"] = "step"
        /\ thread_update' = [thread_update EXCEPT !["loop"] =
               GameStateUpdate(SqnAdd(TimeOrder(game_state), 1), update_dict)]
        /\ thread_pc' = [thread_pc EXCEPT !["loop"] = "append"]
        /\ ticks' = ticks + 1
        /\ UNCHANGED <<otherVars, storeVars, thread_items, game_loop_is_running,
                       stop_result, stop_checks, paused_applied, observed, whole_states>>

\* stop, called while the game loop is running
StopCall ==
    /\ thread_pc["stop"] = "idle"
    /\ game_loop_is_running
    /\ IF game_state["game_status"] = Num(Active)
       THEN /\ thread_update' = [thread_update EXCEPT !["stop"] =
                    GameStateUpdate(SqnAdd(TimeOrder(game_state), 1),
                                    [k \in {"game_status"} |-> Num(Paused)])]
            /\ thread_pc' = [thread_pc EXCEPT !["stop"] = "append"]
       ELSE /\ thread_pc' = [thread_pc EXCEPT !["stop"] = "wait"]
            /\ UNCHANGED thread_update
    /\ UNCHANGED <<otherVars, storeVars, thread_items, game_loop_is_running, ticks,
                   stop_result, stop_checks, paused_applied, observed, whole_states>>

\* while self._game_loop_is_running: ... ; return not self._game_loop_is_running
StopReturn ==
    /\ thread_pc["stop"] = "wait"
    /\ ~game_loop_is_running
    /\ stop_result' = TRUE
    /\ thread_pc' = [thread_pc EXCEPT !["stop"] = "returned"]
    /\ UNCHANGED <<otherVars, storeVars, thread_update, thread_items, game_loop_is_running,
                   ticks, stop_checks, paused_applied, observed, whole_states>>

\* if time.time() - t0 > timeout: break, after the loop has gone round MaxStopWait times
StopTimeout ==
    /\ thread_pc["stop"] = "wait"
    /\ game_loop_is_running
    /\ stop_checks >= MaxStopWait
    /\ stop_result' = FALSE
    /\ thread_pc' = [thread_pc EXCEPT !["stop"] = "returned"]
    /\ UNCHANGED <<otherVars, storeVars, thread_update, thread_items, game_loop_is_running,
                   ticks, stop_checks, paused_applied, observed, whole_states>>

\* push_update: self._game_state_update_cache.append(update) and the size limit
PushAppend(t) ==
    /\ thread_pc[t] = "append"
    /\ LET appended == Append(update_cache, thread_update[t])
       IN  update_cache' = IF Len(appended) > update_cache_size THEN Tail(appended) ELSE appended
    /\ thread_pc' = [thread_pc EXCEPT ![t] = "compare"]
    /\ UNCHANGED <<otherVars, game_state, thread_update, thread_items, game_loop_is_running,
                   ticks, stop_result, stop_checks, paused_applied, observed, whole_states>>

\* push_update: if update > self._game_state
PushCompare(t) ==
    /\ thread_pc[t] = "compare"
    /\ thread_pc' = [thread_pc EXCEPT ![t] =
           IF SqnGt(TimeOrder(thread_update[t]), TimeOrder(game_state))
           THEN "radd" ELSE AfterPush(t)]
    /\ UNCHANGED <<otherVars, storeVars, thread_update, thread_items, game_loop_is_running,
                   ticks, stop_result, stop_checks, paused_applied, observed, whole_states>>

\* __radd__: if self > other, then _recursive_update starts on the items of the update
PushRadd(t) ==
    /\ thread_pc[t] = "radd"
    /\ IF SqnGt(TimeOrder(thread_update[t]), TimeOrder(game_state))
       THEN /\ thread_pc' = [thread_pc EXCEPT ![t] = "apply"]
            /\ thread_items' = [thread_items EXCEPT ![t] = Items(thread_update[t])]
       ELSE /\ thread_pc' = [thread_pc EXCEPT ![t] = AfterPush(t)]
            /\ UNCHANGED thread_items
    /\ UNCHANGED <<otherVars, storeVars, thread_update, game_loop_is_running,
                   ticks, stop_result, stop_checks, paused_applied, observed, whole_states>>

\* _recursive_update(state.__dict__, update.__dict__, delete=True): one item of the loop
PushApply(t) ==
    /\ thread_pc[t] = "apply"
    /\ LET key == Head(thread_items[t])
           last == Tail(thread_items[t]) = << >>
       IN  /\ game_state' = RecursiveUpdate(game_state,
                                            [k \in {key} |-> thread_update[t][key]], TRUE)
           /\ thread_items' = [thread_items EXCEPT ![t] = Tail(@)]
           /\ thread_pc' = [thread_pc EXCEPT ![t] = IF last THEN AfterPush(t) ELSE "apply"]
           /\ whole_states' = IF last THEN whole_states \cup {game_state'} ELSE whole_states
           /\ paused_applied' = (paused_applied \/ (t = "stop" /\ key = "game_status"))
    /\ UNCHANGED <<otherVars, update_cache, thread_update, game_loop_is_running,
                   ticks, stop_result, stop_checks, observed>>

\* ServerConnection._create_next_package in the server's thread:
\* GameStateUpdate(**game_state.__dict__) copies the items of the state as they are now
ReaderSnapshot ==
    /\ thread_pc["loop"] # "idle"
    /\ observed' = game_state
    /\ UNCHANGED <<otherVars, storeVars, thread_pc, thread_update, thread_items,
                   game_loop_is_running, ticks, stop_result, stop_checks, paused_applied,
                   whole_states>>

NextMachine ==
    \/ LoopStart
    \/ LoopEnter
    \/ LoopWhile
    \/ LoopStep
    \/ StopCall
    \/ StopReturn
    \/ StopTimeout
    \/ \E t \in Threads : PushAppend(t)
    \/ \E t \in Threads : PushCompare(t)
    \/ \E t \in Threads : PushRadd(t)
    \/ \E t \in Threads : PushApply(t)
    \/ ReaderSnapshot

SpecMachine == Init /\ [][NextMachine]_vars

(***************************************************************************)
(* SpecServer: the server loop across Server.shutdown and Server.run, with *)
(* a second client address.  Of the second address only the existence of   *)
(* its connection record and the host permission are followed.             *)
(***************************************************************************)
\* Server.run after the loop has returned: a new socket and a new task group
ServerRun ==
    /\ server_loop = "stopped"
    /\ server_runs < MaxServerRuns
    /\ server_runs' = server_runs + 1
    /\ server_loop' = "running"
    /\ UNCHANGED <<now, connVars, send_loops, envVars, histVars, storeVars, mirrorVars, gsVars,
                   mergeVars, machineVars, other_in_connections, first_connection, control_call,
                   castVars, throttleVars, drainVars, lockVars, sqnVars, loopVars, sharedVars, lagVars, clientVars, ackVars>>

\* ServerConnection.loop, the first PyGaSe datagram of the second address
ServerLoopOtherPackage ==
    /\ server_loop = "running"
    /\ ~other_in_connections
    /\ other_in_connections' = TRUE
    /\ host_client' = IF host_client = "none" THEN "other" ELSE host_client
    /\ first_connection' = IF first_connection = "none" THEN "other" ELSE first_connection
    /\ UNCHANGED <<now, in_connections, local_sequence, remote_sequence, ack_bitfield, latency,
                   status, last_recv, pending_acks, event_callback_sequence,
                   events_with_callbacks, event_callbacks, outgoing_event_queue,
                   incoming_event_queue, last_client_time_order, taskVars, envVars, histVars,
                   storeVars, mirrorVars, gsVars, mergeVars, machineVars, server_runs,
                   control_call, castVars, throttleVars, drainVars, lockVars, sqnVars, loopVars, sharedVars, lagVars, clientVars, ackVars>>

ServerLoopControlLogged ==
    \E source \in Addresses, data \in ControlData :
        /\ ControlDatagram(source, data)
        /\ control_call' = [source |-> source, data |-> data]

NextServer ==
    \/ ServerLoopPackage
    \/ ServerLoopOtherPackage
    \/ ServerLoopControlLogged
    \/ ServerRun
    \/ SendLoopSend
    \/ PeerSend
    \/ PeerReceive

SpecServer == Init /\ [][NextServer]_vars

(***************************************************************************)
(* Client.dispatch_event with retries (SpecRetry).  The record stands for  *)
(* the connection of a client: dispatch_event, _send_next_package and      *)
(* _recv are the methods of Connection that both ends share, and the       *)
(* retrying timeout callback is one of the callbacks _recv invokes.        *)
(***************************************************************************)
\* the event type and data the application dispatches with retries
RetryEvent == 200

\* the calls the application itself made
AppDispatches == {i \in DOMAIN dispatch_log : dispatch_log[i].parent = 0}

\* the application calls client.dispatch_event(event_type, retries=..., ack_callback=...)
ClientDispatchEvent ==
    \E retries \in 0..MaxRetries, ack_callback \in BOOLEAN :
        /\ server_loop = "running"
        /\ in_connections
        /\ Cardinality(AppDispatches) < MaxClientDispatch
        /\ LET acc == ClientDispatch(Fields, RetryEvent, retries, ack_callback, 0)
           IN  /\ event_callback_sequence' = acc.event_callback_sequence
               /\ event_callbacks' = acc.event_callbacks
               /\ callback_calls' = acc.callback_calls
               /\ outgoing_event_queue' = acc.outgoing_event_queue
               /\ dispatch_log' = acc.dispatch_log
        /\ UNCHANGED <<now, in_connections, host_client, local_sequence, remote_sequence,
                       ack_bitfield, latency, status, last_recv, pending_acks,
                       events_with_callbacks, incoming_event_queue, last_client_time_order,
                       taskVars, envVars, dispatched, resolved, accepted, carried_by,
                       recv_call, storeVars, mirrorVars, gsVars, mergeVars, machineVars,
                       serverVars, castVars, throttleVars, drainVars, lockVars, sqnVars, loopVars, sharedVars, lagVars, clientVars, ackVars>>

RetrySendLoopSend ==
    /\ local_sequence < MaxRetryPackages
    /\ SendLoop

\* the clock is read again, before the connection timeout can pass
RetryTick ==
    /\ server_loop = "running"
    /\ now + TickStep <= MaxRetryTime
    /\ now' = now + TickStep
    /\ UNCHANGED <<connVars, taskVars, envVars, histVars, storeVars, mirrorVars, gsVars,
                   mergeVars, machineVars, serverVars, castVars, throttleVars, drainVars, lockVars, sqnVars, loopVars, sharedVars, lagVars, clientVars, ackVars>>

NextRetry ==
    \/ ClientDispatchEvent
    \/ ServerLoopPackage
    \/ RetrySendLoopSend
    \/ PeerSend
    \/ PeerReceive
    \/ RetryTick

SpecRetry == Init /\ [][NextRetry]_vars

(***************************************************************************)
(* Sqn.__sub__ on pairs of sequence numbers around 0, the half of the      *)
(* range and the maximum (SpecSqn).                                        *)
(***************************************************************************)
SqnValues == {0, 1, 2, 3, 32767, 32768, 32769, max_sequence - 2, max_sequence - 1, max_sequence}

InitSqn ==
    /\ ConnectionInit
    /\ StoreInit
    /\ MirrorInit
    /\ AlgebraInit(GameState(0, EmptyDict))
    /\ MergeInit(NoUpdate, NoUpdate, NoUpdate)
    /\ MachineInit
    /\ \E a \in SqnValues, b \in SqnValues : SqnInit(a, b)
    /\ EventLoopInit
    /\ SharedInit
    /\ LagInit
    /\ ClientConnectionInit
    /\ AckInit

\* Sqn(sqn_a) - Sqn(sqn_b)
Subtract ==
    /\ ~sqn_done
    /\ sqn_diff' = SqnSub(sqn_a, sqn_b)
    /\ sqn_done' = TRUE
    /\ UNCHANGED <<now, connVars, taskVars, envVars, histVars, storeVars, mirrorVars, gsVars,
                   mergeVars, machineVars, serverVars, castVars, throttleVars, drainVars,
                   lockVars, sqn_a, sqn_b, loopVars, sharedVars, lagVars, clientVars, ackVars>>

NextSqn == Subtract

SpecSqn == InitSqn /\ [][NextSqn]_vars

(***************************************************************************)
(* Several events with and without callbacks, spread over the packages of  *)
(* one connection (SpecCallbacks).                                         *)
(***************************************************************************)
CallbackDispatch ==
    \E ack_callback \in BOOLEAN, timeout_callback \in BOOLEAN :
        /\ server_loop = "running"
        /\ in_connections
        /\ dispatched < MaxCallbackDispatch
        /\ dispatched' = dispatched + 1
        /\ LET event == 400 + dispatched + 1
               acc == ConnectionDispatch(Fields, event, ack_callback, timeout_callback, 0)
           IN  /\ event_callback_sequence' = acc.event_callback_sequence
               /\ event_callbacks' = acc.event_callbacks
               /\ callback_calls' = acc.callback_calls
               /\ outgoing_event_queue' = acc.outgoing_event_queue
        /\ UNCHANGED <<now, in_connections, host_client, local_sequence, remote_sequence,
                       ack_bitfield, latency, status, last_recv, pending_acks,
                       events_with_callbacks, incoming_event_queue, last_client_time_order,
                       taskVars, envVars, resolved, accepted, carried_by, recv_call,
                       dispatch_log, storeVars, mirrorVars, gsVars, mergeVars, machineVars,
                       serverVars, castVars, throttleVars, drainVars, lockVars, sqnVars, loopVars, sharedVars, lagVars, clientVars, ackVars>>

CallbackSendLoopSend ==
    /\ local_sequence < MaxCallbackPackages
    /\ SendLoop

CallbackPeerSend ==
    /\ peer_sequence < MaxCallbackPeer
    /\ ClientSendNextPackage

\* the clock is read again, after Package.timeout has passed
CallbackTick ==
    /\ server_loop = "running"
    /\ now + TickStep <= MaxCallbackTime
    /\ now' = now + TickStep
    /\ UNCHANGED <<connVars, taskVars, envVars, histVars, storeVars, mirrorVars, gsVars,
                   mergeVars, machineVars, serverVars, castVars, throttleVars, drainVars,
                   lockVars, sqnVars, loopVars, sharedVars, lagVars, clientVars, ackVars>>

NextCallbacks ==
    \/ CallbackDispatch
    \/ ServerLoopPackage
    \/ CallbackSendLoopSend
    \/ CallbackPeerSend
    \/ PeerReceive
    \/ CallbackTick

SpecCallbacks == Init /\ [][NextCallbacks]_vars

(***************************************************************************)
(* Connection._event_loop and _handle_next_event (SpecEvents).  The peer   *)
(* sends packages with three events each; the second event of a package    *)
(* has a type no handler is registered for.                                *)
(***************************************************************************)
EventPeerEvents(sequence) == <<10 * sequence + 1, 10 * sequence + 2, 10 * sequence + 3>>

\* UniversalEventHandler.has_event_type(event.type)
HasEventType(event) == event % 10 # 2

\* _handle_next_event without the has_event_type test: handle() looks the type up in
\* _event_handlers and raises KeyError
HandleUnchecked(event) ==
    IF HasEventType(event)
    THEN [handled |-> TRUE, error |-> "none"]
    ELSE [handled |-> FALSE, error |-> "KeyError"]

\* the body of _handle_next_event for the event taken from the queue
Handle(event) ==
    IF HasEventType(event)
    THEN [handled |-> TRUE, error |-> "none"]
    ELSE [handled |-> FALSE, error |-> "none"]

EventPeerSend ==
    /\ server_loop = "running"
    /\ peer_sequence < MaxEventPeer
    /\ peer_sequence' = SqnAdd(peer_sequence, 1)
    /\ network' = network \cup
           {Datagram(peer_sequence', peer_remote_sequence, peer_ack_bitfield,
                     TimeOrder(mirror), EventPeerEvents(peer_sequence'))}
    /\ UNCHANGED <<now, connVars, taskVars, event_wire, sent_packages,
                   peer_remote_sequence, peer_ack_bitfield, peer_recv_loop, histVars,
                   storeVars, mirrorVars, gsVars, mergeVars, machineVars, serverVars,
                   castVars, throttleVars, drainVars, lockVars, sqnVars, loopVars, sharedVars, lagVars, clientVars, ackVars>>

\* one iteration of _event_loop; the task was spawned with the connection and is
\* cancelled with the other tasks of the server loop
HandleNextEvent ==
    /\ server_loop = "running"
    /\ in_connections
    /\ event_loop # "failed"
    /\ incoming_event_queue # << >>
    /\ LET event == Head(incoming_event_queue)
           result == Handle(event)
       IN  /\ incoming_event_queue' = Tail(incoming_event_queue)
           /\ taken_events' = Append(taken_events, event)
           /\ handled_events' = IF result.handled THEN Append(handled_events, event)
                                ELSE handled_events
           /\ event_loop' = IF result.error = "none" THEN "running" ELSE "failed"
    /\ UNCHANGED <<now, in_connections, host_client, local_sequence, remote_sequence,
                   ack_bitfield, latency, status, last_recv, pending_acks,
                   event_callback_sequence, events_with_callbacks, event_callbacks,
                   outgoing_event_queue, last_client_time_order, taskVars, envVars, histVars,
                   storeVars, mirrorVars, gsVars, mergeVars, machineVars, serverVars,
                   castVars, throttleVars, drainVars, lockVars, sqnVars, sharedVars, lagVars, clientVars, ackVars>>

NextEvents ==
    \/ ServerLoopPackage
    \/ EventPeerSend
    \/ HandleNextEvent

SpecEvents == Init /\ [][NextEvents]_vars

(***************************************************************************)
(* ClientConnection.loop (SpecClient): the loop spawns the sender, the     *)
(* receiver and the event loop once and then waits for a command; the      *)
(* sender leaves on a timeout, the receiver goes on until it is cancelled. *)
(* The server and the network are the environment: a ServerPackage may     *)
(* arrive at any time.                                                     *)
(***************************************************************************)
ClientCommands == {"shutdown", "shut_me_down"}

\* loop: status Connecting, the three tasks are spawned
ClientLoopStart ==
    /\ client_loop = "idle"
    /\ client_loop' = "running"
    /\ client_status' = "Connecting"
    /\ client_last_recv' = now            \* the connection was constructed just before
    /\ client_send_loops' = client_send_loops + 1
    /\ client_recv_loop' = "running"
    /\ client_event_loop' = "running"
    /\ UNCHANGED <<now, client_local_sequence>>
    /\ UNCHANGED <<connVars, taskVars, envVars, histVars, storeVars, mirrorVars, gsVars,
                   mergeVars, machineVars, serverVars, castVars, throttleVars, drainVars,
                   lockVars, sqnVars, loopVars, sharedVars, lagVars, ackVars>>

\* _send_loop, one iteration that finds the connection timed out
ClientSendLoopTimeout ==
    /\ client_send_loops > 0
    /\ now - client_last_recv > ConnectionTimeout
    /\ client_status' = "Disconnected"
    /\ client_send_loops' = client_send_loops - 1
    /\ UNCHANGED <<now, client_loop, client_last_recv, client_local_sequence, client_recv_loop,
                   client_event_loop>>
    /\ UNCHANGED <<connVars, taskVars, envVars, histVars, storeVars, mirrorVars, gsVars,
                   mergeVars, machineVars, serverVars, castVars, throttleVars, drainVars,
                   lockVars, sqnVars, loopVars, sharedVars, lagVars, ackVars>>

\* _send_loop, one iteration that sends a package
ClientSendLoopSend ==
    /\ client_send_loops > 0
    /\ ~(now - client_last_recv > ConnectionTimeout)
    /\ client_local_sequence < MaxClientSeq
    /\ client_local_sequence' = SqnAdd(client_local_sequence, 1)
    /\ UNCHANGED <<now, client_loop, client_status, client_last_recv, client_send_loops,
                   client_recv_loop, client_event_loop>>
    /\ UNCHANGED <<connVars, taskVars, envVars, histVars, storeVars, mirrorVars, gsVars,
                   mergeVars, machineVars, serverVars, castVars, throttleVars, drainVars,
                   lockVars, sqnVars, loopVars, sharedVars, lagVars, ackVars>>

\* _client_recv_loop receives a ServerPackage with a new sequence: _recv
ClientRecvLoopPackage ==
    /\ client_recv_loop = "running"
    /\ client_local_sequence # 0
    /\ client_last_recv' = now
    /\ client_status' = "Connected"
    /\ UNCHANGED <<now, client_loop, client_local_sequence, client_send_loops, client_recv_loop,
                   client_event_loop>>
    /\ UNCHANGED <<connVars, taskVars, envVars, histVars, storeVars, mirrorVars, gsVars,
                   mergeVars, machineVars, serverVars, castVars, throttleVars, drainVars,
                   lockVars, sqnVars, loopVars, sharedVars, lagVars, ackVars>>

\* loop: a command arrives on the command queue (shutdown); both commands
\* leave the while loop, the tasks are cancelled
ClientLoopCommand ==
    \E command \in ClientCommands :
        /\ client_loop = "running"
        /\ client_loop' = "stopped"
        /\ client_recv_loop' = "cancelled"
        /\ client_send_loops' = 0
        /\ client_event_loop' = "cancelled"
        /\ client_status' = "Disconnected"
        /\ UNCHANGED <<now, client_last_recv, client_local_sequence>>
        /\ UNCHANGED <<connVars, taskVars, envVars, histVars, storeVars, mirrorVars, gsVars,
                       mergeVars, machineVars, serverVars, castVars, throttleVars, drainVars,
                       lockVars, sqnVars, loopVars, sharedVars, lagVars, ackVars>>

ClientTick ==
    /\ now + TickStep <= MaxClientTime
    /\ now' = now + TickStep
    /\ UNCHANGED <<connVars, taskVars, envVars, histVars, storeVars, mirrorVars, gsVars,
                   mergeVars, machineVars, serverVars, castVars, throttleVars, drainVars,
                   lockVars, sqnVars, loopVars, sharedVars, lagVars, clientVars, ackVars>>

NextClient ==
    \/ ClientLoopStart
    \/ ClientSendLoopTimeout
    \/ ClientSendLoopSend
    \/ ClientRecvLoopPackage
    \/ ClientLoopCommand
    \/ ClientTick

SpecClient == Init /\ [][NextClient]_vars

(***************************************************************************)
(* A client that lags behind the update cache (SpecLag): the game loop     *)
(* pushes more updates than the cache holds, and a connection whose client *)
(* reported an early time_order builds its package.                        *)
(***************************************************************************)
\* what the update with time_order t changes: one of two attributes in the
\* first updates, nothing later
LagAttributes(t) ==
    IF t <= MaxLagChoice
    THEN {[k \in {"foo"} |-> Num(1)], [k \in {"bar"} |-> Num(1)]}
    ELSE {EmptyDict}

\* the game loop: push_update(GameStateUpdate(game_state.time_order + 1, **update_dict))
LagPush ==
    /\ TimeOrder(game_state) < MaxLagPush
    /\ \E update_dict \in LagAttributes(TimeOrder(game_state) + 1) :
           LET store == PushUpdate(game_state, update_cache,
                                   GameStateUpdate(SqnAdd(TimeOrder(game_state), 1), update_dict))
           IN  /\ game_state' = store.game_state
               /\ update_cache' = store.update_cache
               /\ lag_history' = Append(lag_history, store.game_state)
    /\ lag_package' = NoPackage
    /\ UNCHANGED <<now, connVars, taskVars, envVars, histVars, mirrorVars, gsVars, mergeVars,
                   machineVars, serverVars, castVars, throttleVars, drainVars, lockVars,
                   sqnVars, loopVars, sharedVars, clientVars, ackVars>>

\* ServerConnection._create_next_package with last_client_time_order = t, a
\* time_order the client got from this server
LagCreateNextPackage ==
    \E t \in 1..MaxLagChoice :
        /\ t <= TimeOrder(game_state)
        /\ lag_package' = [built |-> TRUE, time_order |-> t,
                           update |-> CreateUpdate(t, game_state, update_cache)]
        /\ UNCHANGED <<lag_history, storeVars>>
        /\ UNCHANGED <<now, connVars, taskVars, envVars, histVars, mirrorVars, gsVars, mergeVars,
                       machineVars, serverVars, castVars, throttleVars, drainVars, lockVars,
                       sqnVars, loopVars, sharedVars, clientVars, ackVars>>

NextLag ==
    \/ LagPush
    \/ LagCreateNextPackage

SpecLag == Init /\ [][NextLag]_vars

(***************************************************************************)
(* The store with nested dictionaries as objects (SpecShared).  Python     *)
(* dictionaries are mutable objects: _recursive_update assigns the nested  *)
(* dict of the update into my_dict (my_dict[key] = value shares the        *)
(* object) and writes into a nested dict that my_dict already holds.  A    *)
(* nested dict is a cell of heap here and an attribute holds Ref(address). *)
(***************************************************************************)
Ref(r) == [tag |-> "ref", val |-> r, sub |-> EmptyDict]

\* the value of an object: every reference replaced by the dict it points to
Resolve(h, obj) ==
    [key \in DOMAIN obj |-> IF obj[key].tag = "ref" THEN Dict(h[obj[key].val]) ELSE obj[key]]

\* _recursive_update(my_dict, update_dict, delete) on objects: the heap and
\* my_dict after the call.  The nested dicts hold integers and TO_DELETE.
RecursiveUpdateInPlace(h, my_dict, update_dict, delete) ==
    LET deleted == {key \in DOMAIN update_dict :
                        update_dict[key] = TO_DELETE /\ delete /\ key \in DOMAIN my_dict}
        recurse(key) == /\ update_dict[key].tag = "ref"
                        /\ key \in DOMAIN my_dict
                        /\ my_dict[key].tag = "ref"
        written == {key \in DOMAIN update_dict : recurse(key)}
    IN  [heap |-> [r \in DOMAIN h |->
                      IF \E key \in written : my_dict[key].val = r
                      THEN LET key == CHOOSE k \in written : my_dict[k].val = r
                           IN  RecursiveUpdate(h[r], h[update_dict[key].val], delete)
                      ELSE h[r]],
         dict |-> [key \in (DOMAIN my_dict \cup DOMAIN update_dict) \ deleted |->
                      IF key \notin DOMAIN update_dict THEN my_dict[key]
                      ELSE IF recurse(key) THEN my_dict[key]
                      ELSE update_dict[key]]]

\* sum((upd for upd in update_cache if upd > update_base), update_base): the
\* generator is consumed while __add__ updates update_base in place
RECURSIVE SumInPlace(_, _, _)
SumInPlace(h, cache, update_base) ==
    IF cache = << >> THEN [heap |-> h, dict |-> update_base]
    ELSE LET upd == Head(cache)
         IN  IF SqnGt(TimeOrder(upd), TimeOrder(update_base))
             THEN LET added == RecursiveUpdateInPlace(h, update_base, upd, FALSE)
                  IN  SumInPlace(added.heap, Tail(cache), added.dict)
             ELSE SumInPlace(h, Tail(cache), update_base)

\* the update of ServerConnection._create_next_package and the heap after it
CreateUpdateInPlace(h, client_time_order, state, cache) ==
    IF client_time_order = 0
    THEN [heap |-> h, dict |-> GameStateUpdate(TimeOrder(state), DictDel(state, "time_order"))]
    ELSE SumInPlace(h, cache, GameStateUpdate(client_time_order, EmptyDict))

\* the game loop pushes GameStateUpdate(time_order + 1, a={key: value})
SharedPushUpdate ==
    \E key \in {"x", "y"}, value \in {Num(1), TO_DELETE} :
        /\ Len(shared_update_cache) <= MaxSharedPush
        /\ LET address == Len(heap) + 1
               update == GameStateUpdate(SqnAdd(TimeOrder(shared_game_state), 1),
                                         [k \in {"a"} |-> Ref(address)])
               allocated == Append(heap, [k \in {key} |-> value])
               appended == Append(shared_update_cache, update)
               applied == IF SqnGt(TimeOrder(update), TimeOrder(shared_game_state))
                          THEN RecursiveUpdateInPlace(allocated, shared_game_state, update, TRUE)
                          ELSE [heap |-> allocated, dict |-> shared_game_state]
           IN  /\ shared_update_cache' = IF Len(appended) > update_cache_size
                                         THEN Tail(appended) ELSE appended
               /\ heap' = applied.heap
               /\ shared_game_state' = applied.dict
        /\ UNCHANGED <<built_update, packages_built>>
        /\ UNCHANGED <<now, connVars, taskVars, envVars, histVars, storeVars, mirrorVars, gsVars,
                       mergeVars, machineVars, serverVars, castVars, throttleVars, drainVars,
                       lockVars, sqnVars, loopVars, lagVars, clientVars, ackVars>>

\* ServerConnection._create_next_package for a client at client_time_order
SharedCreateNextPackage ==
    \E client_time_order \in 0..MaxSharedPush :
        /\ packages_built < MaxSharedPackages
        /\ LET created == CreateUpdateInPlace(heap, client_time_order, shared_game_state,
                                              shared_update_cache)
           IN  /\ heap' = created.heap
               /\ built_update' = Resolve(created.heap, created.dict)
        /\ packages_built' = packages_built + 1
        /\ UNCHANGED <<shared_game_state, shared_update_cache>>
        /\ UNCHANGED <<now, connVars, taskVars, envVars, histVars, storeVars, mirrorVars, gsVars,
                       mergeVars, machineVars, serverVars, castVars, throttleVars, drainVars,
                       lockVars, sqnVars, loopVars, lagVars, clientVars, ackVars>>

NextShared ==
    \/ SharedPushUpdate
    \/ SharedCreateNextPackage

SpecShared == Init /\ [][NextShared]_vars

(***************************************************************************)
(* Datagrams that arrive long after they were sent (SpecOld): the peer     *)
(* keeps sending, runs of its packages are lost, and a datagram still in   *)
(* the network is received when remote_sequence has moved on.              *)
(***************************************************************************)
\* lengths of the runs of packages that are lost
LostRuns == {BitfieldWidth - 1, BitfieldWidth, BitfieldWidth + 1}

OldPeerSend ==
    /\ peer_sequence < MaxOldPeerSeq
    /\ Cardinality(network) < MaxOldDatagrams
    /\ ClientSendNextPackage

\* the peer sends run packages and the network loses every one of them
OldPeerSendLost ==
    \E run \in LostRuns :
        /\ server_loop = "running"
        /\ peer_sequence + run < MaxOldPeerSeq
        /\ peer_sequence' = SqnAdd(peer_sequence, run)
        /\ UNCHANGED <<now, connVars, taskVars, event_wire, sent_packages, network,
                       peer_remote_sequence, peer_ack_bitfield, peer_recv_loop, histVars,
                       storeVars, mirrorVars, gsVars, mergeVars, machineVars, serverVars,
                       castVars, throttleVars, drainVars, lockVars, sqnVars, loopVars, sharedVars, lagVars, clientVars, ackVars>>

NextOld ==
    \/ ServerLoopPackage
    \/ OldPeerSend
    \/ OldPeerSendLost

SpecOld == Init /\ [][NextOld]_vars

(***************************************************************************)
(* Sending around the wrap of the sequence number (SpecWrap): the          *)
(* connection has sent local_sequence packages before and none is pending. *)
(***************************************************************************)
WrapStarts == {0, max_sequence - 1, max_sequence}

InitWrap ==
    /\ \E sequence \in WrapStarts : ConnectionInitFrom(sequence)
    /\ StoreInit
    /\ MirrorInit
    /\ AlgebraInit(GameState(0, EmptyDict))
    /\ MergeInit(NoUpdate, NoUpdate, NoUpdate)
    /\ MachineInit
    /\ SqnInit(0, 0)
    /\ EventLoopInit
    /\ SharedInit
    /\ LagInit
    /\ ClientConnectionInit
    /\ AckInit

WrapSendLoopSend ==
    /\ Len(sent_packages) < MaxWrapPackages
    /\ SendLoop

NextWrap ==
    \/ ServerLoopPackage
    \/ PeerSend
    \/ DispatchEvent
    \/ WrapSendLoopSend

SpecWrap == InitWrap /\ [][NextWrap]_vars

(***************************************************************************)
(* The client's mirror behind its lock (SpecMirror).  The connection runs  *)
(* in a thread of its own (Client.connect_in_thread); the user's thread    *)
(* enters and leaves `with client.access_game_state() as game_state`.      *)
(* The update is written into the mirror item by item, as in SpecMachine.  *)
(***************************************************************************)
\* the values an update of the server sets foo to
MirrorValues == {1, 2}

\* ClientConnection._recv: super()._recv(package) has returned
MirrorRecv ==
    \E value \in MirrorValues :
        /\ recv_pc = "idle"
        /\ recv_applied < MaxMirrorUpdates
        /\ recv_update' = GameStateUpdate(SqnAdd(TimeOrder(mirror), 1),
                                          [k \in {"foo"} |-> Num(value)])
        /\ recv_pc' = "acquire"
        /\ UNCHANGED <<now, connVars, taskVars, envVars, histVars, storeVars, mirrorVars,
                       gsVars, mergeVars, machineVars, serverVars, castVars, throttleVars,
                       drainVars, lock, recv_items, recv_applied, user_pc, user_entered,
                       user_last, mirror_whole, sqnVars, loopVars, sharedVars, lagVars, clientVars, ackVars>>

\* the mirror is written whoever holds the lock
MirrorAcquireUnlocked ==
    /\ recv_pc = "acquire"
    /\ lock' = IF lock = "free" THEN "recv" ELSE lock
    /\ recv_pc' = "apply"
    /\ recv_items' = IF SqnGt(TimeOrder(recv_update), TimeOrder(mirror))
                     THEN Items(recv_update) ELSE << >>
    /\ UNCHANGED <<now, connVars, taskVars, envVars, histVars, storeVars, mirrorVars,
                   gsVars, mergeVars, machineVars, serverVars, castVars, throttleVars,
                   drainVars, recv_update, recv_applied, user_pc, user_entered, user_last,
                   mirror_whole, sqnVars, loopVars, sharedVars, lagVars, clientVars, ackVars>>

\* async with curio.abide(self.game_state_context.lock): the lock is taken when free;
\* ressource += update is update.__radd__(ressource), which writes if update > ressource
MirrorAcquire ==
    /\ recv_pc = "acquire"
    /\ lock = "free"
    /\ lock' = "recv"
    /\ recv_pc' = "apply"
    /\ recv_items' = IF SqnGt(TimeOrder(recv_update), TimeOrder(mirror))
                     THEN Items(recv_update) ELSE << >>
    /\ UNCHANGED <<now, connVars, taskVars, envVars, histVars, storeVars, mirrorVars,
                   gsVars, mergeVars, machineVars, serverVars, castVars, throttleVars,
                   drainVars, recv_update, recv_applied, user_pc, user_entered, user_last,
                   mirror_whole, sqnVars, loopVars, sharedVars, lagVars, clientVars, ackVars>>

\* _recursive_update(other.__dict__, self.__dict__, delete=True), one item
MirrorApply ==
    /\ recv_pc = "apply"
    /\ recv_items # << >>
    /\ LET key == Head(recv_items)
           last == Tail(recv_items) = << >>
       IN  /\ mirror' = RecursiveUpdate(mirror, [k \in {key} |-> recv_update[key]], TRUE)
           /\ recv_items' = Tail(recv_items)
           /\ mirror_whole' = IF last THEN mirror_whole \cup {mirror'} ELSE mirror_whole
    /\ UNCHANGED <<now, connVars, taskVars, envVars, histVars, storeVars, mirror_prev,
                   client_recv_call, gsVars, mergeVars, machineVars, serverVars, castVars,
                   throttleVars, drainVars, lock, recv_pc, recv_update, recv_applied,
                   user_pc, user_entered, user_last, sqnVars, loopVars, sharedVars, lagVars, clientVars, ackVars>>

\* the end of the async with block: the lock is released
MirrorRelease ==
    /\ recv_pc = "apply"
    /\ recv_items = << >>
    /\ lock' = IF lock = "recv" THEN "free" ELSE lock
    /\ recv_pc' = "idle"
    /\ recv_applied' = recv_applied + 1
    /\ UNCHANGED <<now, connVars, taskVars, envVars, histVars, storeVars, mirrorVars,
                   gsVars, mergeVars, machineVars, serverVars, castVars, throttleVars,
                   drainVars, recv_update, recv_items, user_pc, user_entered, user_last,
                   mirror_whole, sqnVars, loopVars, sharedVars, lagVars, clientVars, ackVars>>

\* LockedRessource.__enter__: lock.acquire() and return the ressource
UserEnter ==
    /\ user_pc = "outside"
    /\ lock = "free"
    /\ lock' = "user"
    /\ user_pc' = "inside"
    /\ user_entered' = mirror
    /\ user_last' = mirror
    /\ UNCHANGED <<now, connVars, taskVars, envVars, histVars, storeVars, mirrorVars,
                   gsVars, mergeVars, machineVars, serverVars, castVars, throttleVars,
                   drainVars, recv_pc, recv_update, recv_items, recv_applied, mirror_whole, sqnVars, loopVars, sharedVars, lagVars, clientVars, ackVars>>

\* the body of the with block reads the game state
UserRead ==
    /\ user_pc = "inside"
    /\ user_last' = mirror
    /\ UNCHANGED <<now, connVars, taskVars, envVars, histVars, storeVars, mirrorVars,
                   gsVars, mergeVars, machineVars, serverVars, castVars, throttleVars,
                   drainVars, lock, recv_pc, recv_update, recv_items, recv_applied, user_pc,
                   user_entered, mirror_whole, sqnVars, loopVars, sharedVars, lagVars, clientVars, ackVars>>

\* LockedRessource.__exit__: lock.release()
UserExit ==
    /\ user_pc = "inside"
    /\ lock' = "free"
    /\ user_pc' = "outside"
    /\ UNCHANGED <<now, connVars, taskVars, envVars, histVars, storeVars, mirrorVars,
                   gsVars, mergeVars, machineVars, serverVars, castVars, throttleVars,
                   drainVars, recv_pc, recv_update, recv_items, recv_applied, user_entered,
                   user_last, mirror_whole, sqnVars, loopVars, sharedVars, lagVars, clientVars, ackVars>>

NextMirror ==
    \/ MirrorRecv
    \/ MirrorAcquire
    \/ MirrorApply
    \/ MirrorRelease
    \/ UserEnter
    \/ UserRead
    \/ UserExit

SpecMirror == Init /\ [][NextMirror]_vars

(***************************************************************************)
(* The send step with events that have a size (SpecDrain).                 *)
(* Package.add_event compares sizes only if the package has been           *)
(* serialized before (_datagram is not None), which is never the case      *)
(* while _send_next_package fills a new package; Package.to_datagram       *)
(* checks the size of the whole datagram after the loop.                   *)
(***************************************************************************)
max_size == 2048

\* Header.to_bytearray(): protocol id, sequence, ack and ack_bitfield
HeaderSize == 12

\* len(event.to_bytes()) of the events the application dispatches
EventSizes == {10, 500}

RECURSIVE EventBlockSize(_)
\* len(Package._create_event_block()): two bytes of length before every event
EventBlockSize(events) ==
    IF events = << >> THEN 0
    ELSE 2 + event_size[Head(events)] + EventBlockSize(Tail(events))

\* len of the datagram Package.to_datagram builds
DatagramSize(events) == HeaderSize + EventBlockSize(events)

\* the application dispatches an event of some size, without callbacks
DrainDispatch ==
    \E size \in EventSizes :
        /\ server_loop = "running"
        /\ in_connections
        /\ dispatched < MaxDrainEvents
        /\ dispatched' = dispatched + 1
        /\ LET event == 300 + dispatched + 1
               acc == ConnectionDispatch(Fields, event, FALSE, FALSE, 0)
           IN  /\ outgoing_event_queue' = acc.outgoing_event_queue
               /\ event_size' = DictSet(event_size, event, size)
        /\ UNCHANGED <<now, in_connections, host_client, local_sequence, remote_sequence,
                       ack_bitfield, latency, status, last_recv, pending_acks,
                       event_callback_sequence, events_with_callbacks, event_callbacks,
                       incoming_event_queue, last_client_time_order, taskVars, envVars,
                       callback_calls, resolved, accepted, carried_by, recv_call,
                       dispatch_log, storeVars, mirrorVars, gsVars, mergeVars, machineVars,
                       serverVars, castVars, throttleVars, send_error, lockVars, sqnVars, loopVars, sharedVars, lagVars, clientVars, ackVars>>

\* _send_next_package in a live _send_loop: the loop takes up to 5 events from the
\* queue and adds them; to_datagram raises OverflowError for a datagram above
\* max_size, and _send_loop catches curio.CancelledError only
DrainSend ==
    LET n == Min(MaxEventsPerPackage, Len(outgoing_event_queue))
        events == [i \in 1..n |-> outgoing_event_queue[i].event]
    IN  /\ send_loops > 0
        /\ ~(now - last_recv > ConnectionTimeout)
        /\ local_sequence < MaxDrainPackages
        /\ IF DatagramSize(events) > max_size
           THEN /\ local_sequence' = SqnAdd(local_sequence, 1)
                /\ outgoing_event_queue' =
                       SubSeq(outgoing_event_queue, n + 1, Len(outgoing_event_queue))
                /\ send_error' = "OverflowError"
                /\ send_loops' = send_loops - 1
                /\ UNCHANGED <<events_with_callbacks, sent_packages, pending_acks,
                               carried_by, server_loop>>
           ELSE /\ SendNextPackage
                /\ UNCHANGED <<taskVars, send_error>>
        /\ UNCHANGED <<now, in_connections, host_client, remote_sequence, ack_bitfield, latency,
                       status, last_recv, event_callback_sequence, event_callbacks,
                       incoming_event_queue, last_client_time_order, event_wire,
                       network, peer_sequence, peer_remote_sequence, peer_ack_bitfield,
                       peer_recv_loop, dispatched, callback_calls, resolved, accepted,
                       recv_call, dispatch_log, storeVars, mirrorVars, gsVars, mergeVars,
                       machineVars, serverVars, castVars, throttleVars, event_size, lockVars, sqnVars, loopVars, sharedVars, lagVars, clientVars, ackVars>>

NextDrain ==
    \/ ServerLoopPackage
    \/ PeerSend
    \/ DrainDispatch
    \/ DrainSend

SpecDrain == Init /\ [][NextDrain]_vars

(***************************************************************************)
(* Congestion avoidance (SpecThrottle): the monitor task of a running send *)
(* loop calls _throttling_state_machine with the clock it reads, sleeps    *)
(* min_throttle_time / 2 or longer, and the latency of the connection      *)
(* changes in between.                                                     *)
(***************************************************************************)
\* latencies below, at and above the threshold
Latencies == {100, 250, 400}

\* _throttling_state_machine doubling throttle_time without the limit max_throttle_time
ThrottlingWithoutLimit(t, state, lat, q, interval) ==
    IF q = "good"
    THEN IF lat > latency_threshold
         THEN [quality |-> "bad", package_interval |-> package_intervals["bad"],
               state |-> [state EXCEPT
                   !.throttle_time = IF t - state.last_quality_change < state.throttle_time
                                     THEN state.throttle_time * 2
                                     ELSE @,
                   !.last_quality_change = t]]
         ELSE IF t - state.last_good_quality_milestone > state.throttle_time
         THEN [quality |-> q,
               package_interval |-> IF interval > package_intervals["good"]
                                    THEN package_intervals["good"] ELSE interval,
               state |-> [state EXCEPT
                   !.throttle_time = Max(state.throttle_time \div 2, min_throttle_time),
                   !.last_good_quality_milestone = t]]
         ELSE [quality |-> q, package_interval |-> interval, state |-> state]
    ELSE IF lat < latency_threshold
         THEN [quality |-> "good", package_interval |-> interval,
               state |-> [state EXCEPT !.last_quality_change = t,
                                       !.last_good_quality_milestone = t]]
         ELSE [quality |-> q, package_interval |-> interval, state |-> state]

\* _throttling_state_machine without the branch that throttles up
ThrottlingWithoutThrottleUp(t, state, lat, q, interval) ==
    IF q = "good"
    THEN IF lat > latency_threshold
         THEN [quality |-> "bad", package_interval |-> package_intervals["bad"],
               state |-> [state EXCEPT
                   !.throttle_time = IF t - state.last_quality_change < state.throttle_time
                                     THEN Min(state.throttle_time * 2, max_throttle_time)
                                     ELSE @,
                   !.last_quality_change = t]]
         ELSE [quality |-> q, package_interval |-> interval, state |-> state]
    ELSE IF lat < latency_threshold
         THEN [quality |-> "good", package_interval |-> interval,
               state |-> [state EXCEPT !.last_quality_change = t,
                                       !.last_good_quality_milestone = t]]
         ELSE [quality |-> q, package_interval |-> interval, state |-> state]

\* Connection._throttling_state_machine(t, state) with self.latency = lat,
\* self.quality = q and self._package_interval = interval
ThrottlingStateMachine(t, state, lat, q, interval) ==
    IF q = "good"
    THEN IF lat > latency_threshold
         THEN [quality |-> "bad", package_interval |-> package_intervals["bad"],
               state |-> [state EXCEPT
                   !.throttle_time = IF t - state.last_quality_change < state.throttle_time
                                     THEN Min(state.throttle_time * 2, max_throttle_time)
                                     ELSE @,
                   !.last_quality_change = t]]
         ELSE IF t - state.last_good_quality_milestone > state.throttle_time
         THEN [quality |-> q,
               package_interval |-> IF interval > package_intervals["good"]
                                    THEN package_intervals["good"] ELSE interval,
               state |-> [state EXCEPT
                   !.throttle_time = Max(state.throttle_time \div 2, min_throttle_time),
                   !.last_good_quality_milestone = t]]
         ELSE [quality |-> q, package_interval |-> interval, state |-> state]
    ELSE IF lat < latency_threshold
         THEN [quality |-> "good", package_interval |-> interval,
               state |-> [state EXCEPT !.last_quality_change = t,
                                       !.last_good_quality_milestone = t]]
         ELSE [quality |-> q, package_interval |-> interval, state |-> state]

\* one iteration of _congestion_avoidance_monitor: time.time(), the state machine, sleep
MonitorTick ==
    \E jitter \in 0..MaxJitter :
        /\ monitor_ticks < MaxMonitorTicks
        /\ monitor_ticks' = monitor_ticks + 1
        /\ monitor_t' = monitor_t + min_throttle_time \div 2 + jitter
        /\ LET r == ThrottlingStateMachine(monitor_t', throttle_state, latency, quality,
                                           package_interval)
           IN  /\ quality' = r.quality
               /\ package_interval' = r.package_interval
               /\ throttle_state' = r.state
               /\ good_since' = IF r.quality = "good" /\ quality = "bad"
                                THEN monitor_t' ELSE good_since
        /\ UNCHANGED <<now, connVars, taskVars, envVars, histVars, storeVars, mirrorVars,
                       gsVars, mergeVars, machineVars, serverVars, castVars, drainVars,
                       lockVars, sqnVars, loopVars, sharedVars, lagVars, clientVars, ackVars>>

\* a round trip time measured by _recv moves self.latency
LatencyChange ==
    \E lat \in Latencies :
        /\ lat # latency
        /\ latency' = lat
        /\ UNCHANGED <<now, in_connections, host_client, local_sequence, remote_sequence,
                       ack_bitfield, status, last_recv, pending_acks, event_callback_sequence,
                       events_with_callbacks, event_callbacks, outgoing_event_queue,
                       incoming_event_queue, last_client_time_order, taskVars, envVars,
                       histVars, storeVars, mirrorVars, gsVars, mergeVars, machineVars,
                       serverVars, castVars, throttleVars, drainVars, lockVars, sqnVars, loopVars, sharedVars, lagVars, clientVars, ackVars>>

NextThrottle ==
    \/ MonitorTick
    \/ LatencyChange

SpecThrottle == Init /\ [][NextThrottle]_vars

(***************************************************************************)
(* Server.dispatch_event (SpecCast): the server holds a connection for     *)
(* each of the two addresses.  A call is described by the keyword          *)
(* arguments it arrives with; a timeout callback is the closure            *)
(* get_timeout_callback(connection) built, called as _recv calls it.       *)
(***************************************************************************)
\* server.connections in the order of insertion
Connections == <<"client", "other">>

\* the keyword arguments of the event data the application passes (none or one)
EventKwargs == {{}, {"foo"}}

\* connection.dispatch_event(event, ack, timeout, **kwargs) for the connections in
\* targets, one after the other: the method takes (event, ack_callback,
\* timeout_callback) and no other keyword, so a call with kwargs raises TypeError
RECURSIVE DispatchOn(_, _, _, _, _, _)
DispatchOn(targets, calls, event, retries, ack_callback, kwargs) ==
    IF targets = << >> THEN [calls |-> calls, error |-> "none"]
    ELSE IF kwargs # {} THEN [calls |-> calls, error |-> "TypeError"]
    ELSE LET connection == Head(targets)
             call == [event |-> event,
                      ack_for |-> connection,           \* lambda: ack_callback(connection)
                      ack_callback |-> ack_callback,
                      timeout_callback |-> retries > 0, \* None unless retries > 0
                      retries |-> retries]
         IN  DispatchOn(Tail(targets),
                        [calls EXCEPT ![connection] = Append(@, call)],
                        event, retries, ack_callback, kwargs)

\* Server.dispatch_event(event_type, target_client=..., retries=..., ack_callback=..., **kwargs)
ServerDispatch(calls, event, target_client, retries, ack_callback, kwargs) ==
    DispatchOn(IF target_client = "all" THEN Connections ELSE <<target_client>>,
               calls, event, retries, ack_callback, kwargs)

\* the application calls server.dispatch_event
ServerDispatchEvent ==
    \E target_client \in {"all", "client", "other"}, retries \in 0..MaxRetries,
       ack_callback \in BOOLEAN, kwargs \in EventKwargs :
        /\ dispatched < MaxCasts
        /\ dispatched' = dispatched + 1
        /\ LET r == ServerDispatch(dispatch_calls, 100 + dispatched + 1, target_client,
                                   retries, ack_callback, kwargs)
           IN  /\ dispatch_calls' = r.calls
               /\ dispatch_error' = r.error
        /\ UNCHANGED <<now, connVars, taskVars, envVars, callback_calls, resolved, accepted,
                       carried_by, recv_call, dispatch_log, storeVars, mirrorVars, gsVars,
                       mergeVars, machineVars, serverVars, timeout_invocations,
                       throttleVars, drainVars, lockVars, sqnVars, loopVars, sharedVars, lagVars, clientVars, ackVars>>

\* the timeout callback of the i-th call on connection is called:
\* self.dispatch_event(event_type, *args, connection=connection, retries=retries - 1,
\*                     ack_callback=ack_callback, **kwargs)
\* target_client is not passed and keeps its default "all"; connection=... is one
\* more keyword argument of the event
ServerTimeoutCallback ==
    \E connection \in DOMAIN dispatch_calls :
        \E i \in DOMAIN dispatch_calls[connection] :
            LET call == dispatch_calls[connection][i]
                r == ServerDispatch(dispatch_calls, call.event, "all", call.retries - 1,
                                    call.ack_callback, {"connection"})
            IN  /\ call.timeout_callback
                /\ \A k \in DOMAIN timeout_invocations :
                       ~(timeout_invocations[k].connection = connection
                         /\ timeout_invocations[k].call = i)
                /\ dispatch_calls' = r.calls
                /\ dispatch_error' = r.error
                /\ timeout_invocations' =
                       Append(timeout_invocations,
                              [connection |-> connection, call |-> i,
                               before |-> [a \in DOMAIN dispatch_calls |->
                                               Len(dispatch_calls[a])],
                               after |-> [a \in DOMAIN dispatch_calls |-> Len(r.calls[a])]])
                /\ UNCHANGED <<now, connVars, taskVars, envVars, histVars, storeVars,
                               mirrorVars, gsVars, mergeVars, machineVars, serverVars,
                               throttleVars, drainVars, lockVars, sqnVars, loopVars, sharedVars, lagVars, clientVars, ackVars>>

NextCast ==
    \/ ServerDispatchEvent
    \/ ServerTimeoutCallback

SpecCast == Init /\ [][NextCast]_vars

(***************************************************************************)
(* Acknowledged server events (SpecAck): the package that carries the      *)
(* event of a call is acknowledged and _recv invokes the "ack" entry of    *)
(* its callbacks, the closure get_ack_callback(connection) built.          *)
(***************************************************************************)
\* (lambda: ack_callback(connection))(): ack_callback is the argument of
\* Server.dispatch_event, None by default, and None(connection) raises TypeError
AckCallback(call) ==
    [called |-> call.ack_callback,
     argument |-> call.ack_for,
     error |-> IF call.ack_callback THEN "none" ELSE "TypeError"]

AckInvoked(connection, i) ==
    \E k \in DOMAIN ack_invocations :
        ack_invocations[k].connection = connection /\ ack_invocations[k].call = i

TimeoutInvoked(connection, i) ==
    \E k \in DOMAIN timeout_invocations :
        timeout_invocations[k].connection = connection /\ timeout_invocations[k].call = i

\* _recv on connection resolves the package of its i-th call as acknowledged:
\* self._event_callbacks[event_sequence]["ack"] is the closure, never None
ServerAckCallback ==
    \E connection \in DOMAIN dispatch_calls :
        \E i \in DOMAIN dispatch_calls[connection] :
            LET r == AckCallback(dispatch_calls[connection][i])
            IN  /\ ack_error = "none"
                /\ ~AckInvoked(connection, i)
                /\ ~TimeoutInvoked(connection, i)
                /\ ack_invocations' = Append(ack_invocations,
                                             [connection |-> connection, call |-> i,
                                              called |-> r.called, argument |-> r.argument])
                /\ ack_error' = r.error
                /\ UNCHANGED <<now, connVars, taskVars, envVars, histVars, storeVars,
                               mirrorVars, gsVars, mergeVars, machineVars, serverVars, castVars,
                               throttleVars, drainVars, lockVars, sqnVars, loopVars, sharedVars,
                               lagVars, clientVars>>

\* _recv resolves the package of a call as timed out; a package is resolved once
AckTimeoutCallback ==
    /\ ack_error = "none"
    /\ ServerTimeoutCallback
    /\ LET invocation == timeout_invocations'[Len(timeout_invocations')]
       IN  ~AckInvoked(invocation.connection, invocation.call)

NextAck ==
    \/ ServerDispatchEvent
    \/ AckTimeoutCallback
    \/ ServerAckCallback

SpecAck == Init /\ [][NextAck]_vars

(***************************************************************************)
(* Properties of the connection (Spec)                                     *)
(***************************************************************************)

\* C1: a datagram whose sequence was accepted earlier and that still equals
\* remote_sequence or lies within the 32 sequences before it is rejected by
\* _recv with DuplicateSequenceError.
C1_DuplicateRejected ==
    (recv_call.was_accepted /\ recv_call.in_window)
        => recv_call.error = "DuplicateSequenceError"

\* C2: the receive loop is never ended by a datagram: after a datagram that
\* raises DuplicateSequenceError (or cannot be parsed) the loop is still
\* running and the sender of the connection is still alive.
C2_ReceiveLoopRecovers ==
    /\ server_loop # "failed"
    /\ (recv_call.error = "DuplicateSequenceError" /\ server_loop # "stopped")
           => (server_loop = "running" /\ send_loops > 0)

\* C3: an event the peer dispatched once (it travels in exactly one package)
\* is put on the incoming event queue and on the event wire at most once.
C3_AtMostOnceDelivery ==
    /\ \A i, j \in 1..Len(event_wire) : i # j => event_wire[i] # event_wire[j]
    /\ \A i, j \in 1..Len(incoming_event_queue) :
           i # j => incoming_event_queue[i] # incoming_event_queue[j]

\* C4: for every dispatched event the ack callback and the timeout callback
\* are invoked at most once in total; after its package was resolved as
\* acknowledged the timeout callback has not fired, and after it was resolved
\* as timed out the ack callback has not fired.
C4_CallbackUniqueness ==
    \A c \in DOMAIN callback_calls :
        /\ callback_calls[c].ack + callback_calls[c].timeout <= 1
        /\ (c \in DOMAIN carried_by /\ carried_by[c] \in DOMAIN resolved) =>
               /\ resolved[carried_by[c]] = "acked" => callback_calls[c].timeout = 0
               /\ resolved[carried_by[c]] = "timedout" => callback_calls[c].ack = 0

\* C4 witness: an event with both callbacks was sent, its package was resolved
\* as timed out (the timeout callback fired), and afterwards a header that
\* acknowledges that very sequence was accepted.
C4_Witness ==
    \E c \in DOMAIN carried_by :
        /\ carried_by[c] \in DOMAIN resolved
        /\ resolved[carried_by[c]] = "timedout"
        /\ callback_calls[c].timeout = 1
        /\ recv_call.error = "none"
        /\ recv_call.ack = carried_by[c]

\* C5: a sent package that is not acknowledged is resolved as timed out once
\* more than Package.timeout has passed, also when no further datagram is
\* received; in particular when the sender has set the connection to
\* Disconnected no package older than Package.timeout is still pending.
C5_TimeoutsResolvedOnDisconnect ==
    (in_connections /\ status = "Disconnected") =>
        \A i \in 1..Len(pending_acks) : ~(now - pending_acks[i].time > PackageTimeout)

\* C6: for every accepted sequence s with 0 < remote_sequence - s <= 32 the
\* character remote_sequence - s - 1 of ack_bitfield is "1".
C6_BitfieldComplete ==
    \A s \in accepted :
        LET d == SqnSub(remote_sequence, s)
        IN  (0 < d /\ d <= BitfieldWidth) => ack_bitfield[d] = 1

\* C16: when no datagram was received for more than Connection.timeout, the
\* send loop does not send at its next wake-up but sets the status to
\* Disconnected and ends: no package is sent while the timeout has passed,
\* the status goes from Connected to Disconnected only in a step that ends
\* the send loop and sends nothing, and no send loop of a Disconnected
\* connection is left to send.
C16_ConnectionTimeout ==
    /\ []((in_connections /\ status = "Disconnected") => send_loops = 0)
    /\ [][sent_packages' # sent_packages => ~(now - last_recv > ConnectionTimeout)]_vars
    /\ [][(status = "Connected" /\ status' = "Disconnected") =>
              /\ now - last_recv > ConnectionTimeout
              /\ send_loops' = send_loops - 1
              /\ sent_packages' = sent_packages]_vars

\* C16 witness: the connection has received a datagram and sent a package,
\* then nothing arrived for more than Connection.timeout and the send loop
\* has set the status to Disconnected, with the server loop still running.
C16_Witness ==
    /\ in_connections
    /\ server_loop = "running"
    /\ local_sequence > 0
    /\ now - last_recv > ConnectionTimeout
    /\ status = "Disconnected"
    /\ send_loops = 0

\* C17: a datagram from the known address of a Disconnected connection is
\* handled by the existing record with its sequence state kept, and when it
\* has been processed the connection is Connected, its send loop runs again
\* and the server loop goes on.
C17_Reconnect ==
    [][(in_connections /\ status = "Disconnected" /\ status' = "Connected") =>
          /\ in_connections'
          /\ local_sequence' = local_sequence
          /\ send_loops' > 0
          /\ server_loop' = "running"]_vars

(***************************************************************************)
(* Properties of the synchronised state (SpecSync)                         *)
(***************************************************************************)

\* C7: a package built for a client that reported time_order 0 carries the
\* whole state of the store, and when the client, whose mirror still has
\* time_order 0, has added it, the mirror has the time_order and the keys of
\* that state, for every time_order 1 .. max_sequence of the store.
C7_HandshakeFullState ==
    LET package == sent_packages[client_recv_call.package]
    IN  ( /\ client_recv_call.package # 0
          /\ client_recv_call.error = "none"
          /\ package.client_time_order = 0
          /\ TimeOrder(mirror_prev) = 0
          /\ TimeOrder(package.store_state) >= 1 )
        => /\ package.game_state_update = package.store_state
           /\ TimeOrder(mirror) = TimeOrder(package.store_state)
           /\ DOMAIN mirror = DOMAIN package.store_state

C8_CollapseLossless ==
    gs_n > 0 => Radd(gs_merged, gs_base) = gs_cur

\* C10: after a strictly newer update was added to a state, every key the
\* update marks with TO_DELETE is absent (top level and inside a nested
\* mapping), every other key of the update holds the update's value, keys the
\* update does not mention are unchanged, and no value of the state is the
\* TO_DELETE token.
C10_DeleteSentinel ==
    gs_n > 0 =>
        /\ \A key \in DOMAIN gs_last :
               /\ gs_last[key] = TO_DELETE => key \notin DOMAIN gs_cur
               /\ gs_last[key].tag = "int" => (key \in DOMAIN gs_cur /\ gs_cur[key] = gs_last[key])
               /\ gs_last[key].tag = "dict" =>
                      /\ key \in DOMAIN gs_cur
                      /\ gs_cur[key].tag = "dict"
                      /\ \A sub_key \in DOMAIN gs_last[key].sub :
                             IF gs_last[key].sub[sub_key] = TO_DELETE
                             THEN sub_key \notin DOMAIN gs_cur[key].sub
                             ELSE /\ sub_key \in DOMAIN gs_cur[key].sub
                                  /\ gs_cur[key].sub[sub_key] = gs_last[key].sub[sub_key]
        /\ \A key \in DOMAIN gs_prev \ DOMAIN gs_last :
               key \in DOMAIN gs_cur /\ gs_cur[key] = gs_prev[key]
        /\ \A key \in DOMAIN gs_cur :
               /\ gs_cur[key] # TO_DELETE
               /\ gs_cur[key].tag = "dict" =>
                      \A sub_key \in DOMAIN gs_cur[key].sub : gs_cur[key].sub[sub_key] # TO_DELETE

(***************************************************************************)
(* Properties of the sums of updates (SpecMerge)                           *)
(***************************************************************************)

\* C11: for updates U, V, W with pairwise distinct time orders, (U + V) + W
\* and U + (V + W) are the same value: same time_order, same keys, same
\* values at every nesting level.
C11_MergeAssociative ==
    mg_done => mg_left = mg_right

\* the update with the larger time_order, in the order of Sqn
Newer(U, V) == IF SqnGt(TimeOrder(V), TimeOrder(U)) THEN V ELSE U

\* C12: U + V and V + U are equal, the result has the larger time_order
\* and, for each key of either, the value of the update with the larger
\* time_order (nested mappings merged key by key), and the sum of U, V, W is
\* the same for every iteration order.
C12_NewerWins ==
    mg_done =>
        /\ mg_uv = mg_vu
        /\ TimeOrder(mg_uv) = TimeOrder(Newer(mg_u, mg_v))
        /\ DOMAIN mg_uv = DOMAIN mg_u \cup DOMAIN mg_v
        /\ \A key \in DOMAIN Newer(mg_u, mg_v) :
               Newer(mg_u, mg_v)[key].tag # "dict" => mg_uv[key] = Newer(mg_u, mg_v)[key]
        /\ Cardinality(mg_sums) = 1

(***************************************************************************)
(* Properties of the store (SpecStore)                                     *)
(***************************************************************************)

\* C13: after any sequence of push_update calls the update cache holds at
\* most 100 entries, their time orders never decrease along the cache, and
\* the time_order of the state is the largest time_order in the cache.
C13_StoreConsistency ==
    /\ Len(update_cache) <= update_cache_size
    /\ \A i \in 1..(Len(update_cache) - 1) :
           ~SqnGt(TimeOrder(update_cache[i]), TimeOrder(update_cache[i + 1]))
    /\ \E i \in 1..Len(update_cache) : TimeOrder(update_cache[i]) = TimeOrder(game_state)
    /\ \A i \in 1..Len(update_cache) :
           ~SqnGt(TimeOrder(update_cache[i]), TimeOrder(game_state))

(***************************************************************************)
(* Properties of the game loop and the store under threads (SpecMachine)   *)
(***************************************************************************)

\* C14: a reader of the store in another thread never gets a state in which
\* only part of an update has been applied: what it reads is a state of the
\* store between two updates.
C14_NoPartialState ==
    observed \in whole_states

\* C15: when stop was called while the game loop was running, its Paused
\* update has been applied once push_update has returned, and stop returns
\* true with the loop ended and the game_status Paused.
C15_StopTakesEffect ==
    /\ thread_pc["stop"] \in {"wait", "returned"} => paused_applied
    /\ thread_pc["stop"] = "returned" =>
           /\ stop_result
           /\ thread_pc["loop"] = "exited"
           /\ game_state["game_status"] = Num(Paused)

(***************************************************************************)
(* Properties of the server loop (SpecServer)                              *)
(***************************************************************************)

\* C18: after a shutdown and a new Server.run the connections of before are
\* still in server.connections, and every datagram of the client that the
\* restarted server accepts is handled by the existing record and leaves a
\* send loop running for it.
C18_ServerRestart ==
    /\ [][in_connections => in_connections']_vars
    /\ [][(server_runs > 1 /\ recv_call' # recv_call /\ recv_call'.error = "none") =>
              /\ local_sequence' = local_sequence
              /\ send_loops' > 0]_vars

\* C19: the host client is the address the first connection was created for
\* and never changes once set; a datagram with the bytes "shutdown" ends the
\* server loop exactly when its source is the host client, and from any
\* other address it leaves the loop running with every send loop alive.
C19_ShutdownPermission ==
    /\ [](host_client = first_connection)
    /\ [][host_client # "none" => host_client' = host_client]_vars
    /\ [][((control_call' # control_call \/ server_loop' # server_loop)
                /\ server_runs' = server_runs /\ recv_call' = recv_call
                /\ control_call'.data = "shutdown") =>
              IF control_call'.source = host_client
              THEN server_loop' = "stopped"
              ELSE /\ server_loop' = "running"
                   /\ send_loops' = send_loops
                   /\ in_connections' = in_connections]_vars

\* C19 witness: both addresses have a connection, the client is the host and
\* its send loop runs, and the latest control datagram was "shutdown" from
\* the other address.
C19_Witness ==
    /\ in_connections
    /\ other_in_connections
    /\ host_client = "client"
    /\ control_call = [source |-> "other", data |-> "shutdown"]
    /\ server_loop = "running"
    /\ send_loops > 0

(***************************************************************************)
(* Properties of Client.dispatch_event with retries (SpecRetry)            *)
(***************************************************************************)
\* the calls made by the timeout callback registered under callback sequence c
Redispatches(c) == {i \in DOMAIN dispatch_log : dispatch_log[i].parent = c}

\* the application's call that a call goes back to
RECURSIVE RootOf(_)
RootOf(i) ==
    IF dispatch_log[i].parent = 0 THEN i
    ELSE RootOf(CHOOSE j \in 1..(i - 1) :
                    dispatch_log[j].callback_sequence = dispatch_log[i].parent)

\* the package that carried the callbacks of sequence c was resolved as timed out
TimedOut(c) ==
    /\ c \in DOMAIN carried_by
    /\ carried_by[c] \in DOMAIN resolved
    /\ resolved[carried_by[c]] = "timedout"

\* C20: an event dispatched through the client with retries = n is
\* dispatched at most n + 1 times in total: every time a pending dispatch
\* with retries left times out, its timeout callback dispatches the event
\* exactly once more, with retries one lower and the same ack callback, and
\* a dispatch with retries = 0 registers no timeout callback.
C20_ClientRetries ==
    /\ \A i \in DOMAIN dispatch_log :
           LET d == dispatch_log[i]
               c == d.callback_sequence
           IN  /\ d.retries >= 0
               /\ d.parent # 0 =>
                      \E j \in 1..(i - 1) :
                          /\ dispatch_log[j].callback_sequence = d.parent
                          /\ dispatch_log[j].event = d.event
                          /\ dispatch_log[j].ack_callback = d.ack_callback
                          /\ dispatch_log[j].retries = d.retries + 1
                          /\ TimedOut(d.parent)
               /\ d.retries > 0 =>
                      /\ c # 0
                      /\ Cardinality(Redispatches(c)) = IF TimedOut(c) THEN 1 ELSE 0
               /\ d.retries = 0 =>
                      /\ c = 0 <=> ~d.ack_callback
                      /\ c # 0 =>
                             /\ Redispatches(c) = {}
                             /\ callback_calls[c].timeout = 0
                             /\ c \in DOMAIN event_callbacks => ~event_callbacks[c].timeout
    /\ \A j \in AppDispatches :
           Cardinality({i \in DOMAIN dispatch_log : RootOf(i) = j}) <= dispatch_log[j].retries + 1

\* C20 witness: an event dispatched with two retries has timed out twice and
\* has been dispatched three times, the last time with no retries left.
C20_Witness ==
    /\ Len(dispatch_log) = 3
    /\ dispatch_log[1].parent = 0
    /\ dispatch_log[1].retries = 2
    /\ dispatch_log[3].retries = 0
    /\ TimedOut(dispatch_log[1].callback_sequence)
    /\ TimedOut(dispatch_log[2].callback_sequence)

(***************************************************************************)
(* Properties of Server.dispatch_event (SpecCast)                          *)
(***************************************************************************)
\* C21: every call of a timeout callback that Server.dispatch_event
\* registered on one connection dispatches the event exactly once more, on
\* that connection only, with retries one lower and the same ack callback;
\* the other connections get no call from it, and a dispatch with
\* retries = 0 has no timeout callback.
C21_ServerRetries ==
    /\ \A k \in DOMAIN timeout_invocations :
           LET v == timeout_invocations[k]
               call == dispatch_calls[v.connection][v.call]
           IN  /\ v.after[v.connection] = v.before[v.connection] + 1
               /\ \A a \in DOMAIN dispatch_calls \ {v.connection} : v.after[a] = v.before[a]
               /\ LET again == dispatch_calls[v.connection][v.after[v.connection]]
                  IN  /\ again.event = call.event
                      /\ again.retries = call.retries - 1
                      /\ again.ack_callback = call.ack_callback
                      /\ again.ack_for = v.connection
    /\ \A a \in DOMAIN dispatch_calls :
           \A i \in DOMAIN dispatch_calls[a] :
               dispatch_calls[a][i].retries = 0 => ~dispatch_calls[a][i].timeout_callback

(***************************************************************************)
(* Properties of congestion avoidance (SpecThrottle)                       *)
(***************************************************************************)
\* C22: a tick of the monitor that finds the latency above the threshold
\* leaves quality bad and the package interval at 1/20 s; a tick that finds
\* it below the threshold leaves quality good; and a tick that finds it
\* below the threshold when quality has been good for more than
\* throttle_time leaves the package interval at 1/40 s.
C22_CongestionResponse ==
    /\ [][(monitor_ticks' # monitor_ticks /\ latency > latency_threshold) =>
              (quality' = "bad" /\ package_interval' = package_intervals["bad"])]_vars
    /\ [][(monitor_ticks' # monitor_ticks /\ latency < latency_threshold) =>
              quality' = "good"]_vars
    /\ [][(/\ monitor_ticks' # monitor_ticks
           /\ latency < latency_threshold
           /\ quality = "good"
           /\ monitor_t' - good_since > throttle_state.throttle_time) =>
              package_interval' = package_intervals["good"]]_vars

\* C22 witness: the connection was throttled down twice within the throttle
\* time, recovered, and the monitor has set the package interval back.
C22_Witness ==
    /\ quality = "good"
    /\ latency < latency_threshold
    /\ good_since > 0
    /\ throttle_state.last_good_quality_milestone > good_since
    /\ throttle_state.last_good_quality_milestone - good_since > min_throttle_time * 2
    /\ package_interval = package_intervals["good"]

\* C35: throttle_time stays within [1 s, 60 s]; a tick of the monitor
\* doubles it (capped at 60 s) exactly when quality switches from good to
\* bad less than throttle_time after the last quality change, halves it
\* (floored at 1 s) exactly when quality stays good and more than
\* throttle_time has passed since the last good milestone, and leaves it
\* unchanged otherwise.
C35_ThrottleTime ==
    [][monitor_ticks' # monitor_ticks =>
         /\ throttle_state'.throttle_time >= min_throttle_time
         /\ throttle_state'.throttle_time <= max_throttle_time
         /\ throttle_state'.throttle_time =
               IF /\ quality = "good" /\ quality' = "bad"
                  /\ monitor_t' - throttle_state.last_quality_change < throttle_state.throttle_time
               THEN (IF 2 * throttle_state.throttle_time > max_throttle_time
                     THEN max_throttle_time ELSE 2 * throttle_state.throttle_time)
               ELSE IF /\ quality = "good" /\ quality' = "good"
                       /\ monitor_t' - throttle_state.last_good_quality_milestone
                              > throttle_state.throttle_time
               THEN (IF 2 * min_throttle_time > throttle_state.throttle_time
                     THEN min_throttle_time ELSE throttle_state.throttle_time \div 2)
               ELSE throttle_state.throttle_time]_vars

\* C35 witness: throttle_time was doubled up to the cap of 60 s
C35_Witness ==
    /\ throttle_state.throttle_time = max_throttle_time
    /\ quality = "bad"

(***************************************************************************)
(* Properties of the send step with sized events (SpecDrain)               *)
(***************************************************************************)
\* the event is waiting in the outgoing queue
Queued(event) ==
    \E i \in DOMAIN outgoing_event_queue : outgoing_event_queue[i].event = event

\* the event went out in a package
Sent(event) ==
    \E i \in DOMAIN sent_packages :
        \E j \in DOMAIN sent_packages[i].events : sent_packages[i].events[j] = event

\* C23: an event that would push the datagram past 2048 bytes stays in the
\* outgoing queue: every dispatched event is either still queued or was
\* sent, every send step sent a package of at most 2048 bytes, and no
\* exception ended the send loop.
C23_OverflowDuringDrain ==
    /\ \A event \in DOMAIN event_size : Queued(event) \/ Sent(event)
    /\ Len(sent_packages) = local_sequence
    /\ \A i \in DOMAIN sent_packages : DatagramSize(sent_packages[i].events) <= max_size
    /\ send_error = "none"

\* the events of the packages sent so far, in the order they went out
RECURSIVE SentEvents(_)
SentEvents(packages) ==
    IF packages = << >> THEN << >>
    ELSE Head(packages).events \o SentEvents(Tail(packages))

\* C32: each outgoing package carries at most 5 events, taken from the head
\* of the queue in dispatch order, and every dispatched event is placed in
\* exactly one package: the events of the packages sent so far followed by
\* the events still queued are the dispatched events, each once, in
\* dispatch order.
C32_SenderPacking ==
    /\ \A i \in DOMAIN sent_packages : Len(sent_packages[i].events) <= MaxEventsPerPackage
    /\ SentEvents(sent_packages) \o
           [i \in 1..Len(outgoing_event_queue) |-> outgoing_event_queue[i].event]
         = [k \in 1..dispatched |-> 300 + k]

(***************************************************************************)
(* Properties of the client's mirror (SpecMirror)                          *)
(***************************************************************************)
\* C24: while the user is inside the with block no update is being applied
\* to the mirror, the mirror is a whole state and is what it was when the
\* block was entered, and the lock is held exactly while the user is inside
\* the block or _recv is inside its async with block.
C24_MirrorMutualExclusion ==
    /\ ~(user_pc = "inside" /\ recv_pc = "apply")
    /\ user_pc = "inside" =>
           /\ mirror = user_entered
           /\ user_last = user_entered
           /\ user_last \in mirror_whole
    /\ lock = "user" <=> user_pc = "inside"
    /\ lock = "recv" <=> recv_pc = "apply"
    /\ lock = "free" <=> (user_pc = "outside" /\ recv_pc \in {"idle", "acquire"})

\* C24 witness: the user is inside the block with a mirror that has been
\* updated before, and _recv waits for the lock with the next update.
C24_Witness ==
    /\ user_pc = "inside"
    /\ recv_pc = "acquire"
    /\ lock = "user"
    /\ TimeOrder(mirror) > 0
    /\ TimeOrder(recv_update) > TimeOrder(mirror)

\* the header (ack, bits) reports only sequences that _recv accepted
SoundHeader(ack, bits) ==
    /\ Len(bits) = BitfieldWidth
    /\ ack # 0 => ack \in accepted
    /\ \A i \in 1..Len(bits) :
           bits[i] = 1 => \E s \in accepted : SqnSub(ack, s) = i

\* C28: ack_bitfield always has 32 characters and a '1' at index i only if
\* the datagram with sequence remote_sequence - (i + 1) was accepted by
\* _recv; the same holds of the header of every package sent.
C28_BitfieldSound ==
    /\ SoundHeader(remote_sequence, ack_bitfield)
    /\ \A k \in DOMAIN sent_packages :
           SoundHeader(sent_packages[k].ack, sent_packages[k].ack_bitfield)

\* C28 witness: sequence 3 arrived after 1 and then the late 2 was accepted,
\* and a package with that bitfield has been sent.
C28_Witness ==
    /\ accepted = {1, 2, 3}
    /\ remote_sequence = 3
    /\ ack_bitfield[1] = 1
    /\ ack_bitfield[2] = 0
    /\ \E k \in DOMAIN sent_packages :
           sent_packages[k].ack = 3 /\ sent_packages[k].ack_bitfield = ack_bitfield

\* C25: a _recv call that ends with DuplicateSequenceError leaves the record
\* as it was: remote_sequence, ack_bitfield, status, the time of the last
\* receipt, latency, pending_acks, the callback registries and the incoming
\* event queue.
C25_DuplicateLeavesRecord ==
    [][(recv_call' # recv_call /\ recv_call'.error = "DuplicateSequenceError") =>
          UNCHANGED <<remote_sequence, ack_bitfield, status, last_recv, latency, pending_acks,
                      events_with_callbacks, event_callbacks, incoming_event_queue>>]_vars

(***************************************************************************)
(* Properties of sending around the wrap (SpecWrap)                        *)
(***************************************************************************)
\* the keys of _pending_acks
PendingSequences(pending) == {pending[i].sequence : i \in DOMAIN pending}

\* C26: every package sent carries the previous local_sequence plus one,
\* 65535 being followed by 1; no package has sequence 0; and the send step
\* adds exactly the sequence it sent to the keys of pending_acks.
C26_SequenceWrap ==
    /\ [](\A i \in DOMAIN sent_packages : sent_packages[i].sequence \in 1..max_sequence)
    /\ [][sent_packages' # sent_packages =>
              /\ local_sequence' = IF local_sequence = max_sequence THEN 1
                                   ELSE local_sequence + 1
              /\ Len(sent_packages') = Len(sent_packages) + 1
              /\ sent_packages'[Len(sent_packages')].sequence = local_sequence'
              /\ PendingSequences(pending_acks') =
                     PendingSequences(pending_acks) \cup {local_sequence'}]_vars
    /\ [][local_sequence' # local_sequence => sent_packages' # sent_packages]_vars

\* C26 witness: the package with sequence 65535 was followed by the package
\* with sequence 1, and both are pending.
C26_Witness ==
    /\ Len(sent_packages) >= 2
    /\ \E i \in 1..(Len(sent_packages) - 1) :
           /\ sent_packages[i].sequence = max_sequence
           /\ sent_packages[i + 1].sequence = 1
    /\ local_sequence = 1
    /\ {1, max_sequence} \subseteq PendingSequences(pending_acks)

(***************************************************************************)
(* Properties of Sqn arithmetic (SpecSqn)                                  *)
(***************************************************************************)
\* C27 as stated: the signed distance Sqn(1) - Sqn(MAX) equals 2.
C27_DistanceAcrossWrapIsTwo ==
    (sqn_done /\ sqn_a = 1 /\ sqn_b = max_sequence) => sqn_diff = 2

\* C27 amended: the signed distance Sqn(1) - Sqn(MAX) equals 1, the one step
\* that Sqn(MAX) + 1 == Sqn(1) takes.
C27_DistanceAcrossWrap ==
    (sqn_done /\ sqn_a = 1 /\ sqn_b = max_sequence) =>
        (sqn_diff = 1 /\ SqnAdd(sqn_b, sqn_diff) = sqn_a)

\* C27 witness: Sqn(1) - Sqn(MAX) has been computed.
C27_Witness ==
    /\ sqn_done
    /\ sqn_a = 1
    /\ sqn_b = max_sequence

(***************************************************************************)
(* Resolution of pending packages by an accepted header (SpecRetry)        *)
(***************************************************************************)
\* the header says that the package with sequence s arrived
Acknowledges(d, s) ==
    \/ SqnSub(d.ack, s) = 0
    \/ /\ 0 < SqnSub(d.ack, s)
       /\ SqnSub(d.ack, s) < 32
       /\ d.ack_bitfield[SqnSub(d.ack, s)] = 1

\* the latency after one sample for each acknowledged entry of pending, in order
RECURSIVE LatencyAfter(_, _, _, _)
LatencyAfter(pending, d, t, lat) ==
    IF pending = << >> THEN lat
    ELSE LatencyAfter(Tail(pending), d, t,
                      IF Acknowledges(d, Head(pending).sequence)
                      THEN lat + (((t - Head(pending).time) * 1000 - lat) \div 10)
                      ELSE lat)

StillPending(pending, s) == \E i \in 1..Len(pending) : pending[i].sequence = s

\* C30: on every accepted header (ack, bits) a pending sequence s is removed
\* as acknowledged exactly if ack - s = 0, or 0 < ack - s < 32 and
\* bits[ack - s - 1] = '1'; a pending sequence that is neither acknowledged
\* nor older than Package.timeout stays pending; and the latency after the
\* call is the one that results from one sample per acknowledged sequence,
\* none for a timed-out one.
C30_AckResolution ==
    [][(recv_call' # recv_call /\ recv_call'.error = "none") =>
         \A d \in network :
            (d.sequence = recv_call'.sequence /\ d.ack = recv_call'.ack) =>
              /\ \A i \in 1..Len(pending_acks) :
                    LET p == pending_acks[i]
                    IN  /\ Acknowledges(d, p.sequence) <=>
                              /\ ~StillPending(pending_acks', p.sequence)
                              /\ p.sequence \in DOMAIN resolved'
                              /\ resolved'[p.sequence] = "acked"
                        /\ (~Acknowledges(d, p.sequence) /\ ~(now - p.time > PackageTimeout))
                              => StillPending(pending_acks', p.sequence)
              /\ latency' = LatencyAfter(pending_acks, d, now, latency)]_vars

\* a package was acknowledged by a character of the bitfield only: no
\* datagram of the peer carries its sequence as ack
C30_Witness ==
    /\ recv_call.error = "none"
    /\ recv_call.ack = 2
    /\ 1 \in DOMAIN resolved
    /\ resolved[1] = "acked"
    /\ 2 \in DOMAIN resolved
    /\ resolved[2] = "acked"
    /\ \A d \in network : d.ack # 1
    /\ latency > 0

(***************************************************************************)
(* Properties of late datagrams (SpecOld)                                  *)
(***************************************************************************)
\* C29: a datagram whose sequence is more than 32 behind remote_sequence is
\* dropped without an error or fails with DuplicateSequenceError, no other
\* error leaves _recv, and remote_sequence and ack_bitfield stay as they
\* were.
C29_TooOldDatagram ==
    [][(/\ recv_call' # recv_call
        /\ remote_sequence # 0
        /\ SqnSub(remote_sequence, recv_call'.sequence) > BitfieldWidth) =>
          /\ recv_call'.error \in {"none", "DuplicateSequenceError"}
          /\ UNCHANGED <<remote_sequence, ack_bitfield>>]_vars

(***************************************************************************)
(* Properties of callbacks and packages (SpecCallbacks)                    *)
(***************************************************************************)
\* the callback sequences of the events still in the outgoing queue
QueuedCallbacks ==
    {outgoing_event_queue[i].callback_sequence : i \in 1..Len(outgoing_event_queue)} \ {0}

\* the callback registered for callback sequence c in the direction kind was invoked once
\* and its entry removed, or none was registered and nothing was invoked
ResolvedAs(c, kind) ==
    LET calls == IF kind = "ack" THEN callback_calls[c].ack ELSE callback_calls[c].timeout
        other == IF kind = "ack" THEN callback_calls[c].timeout ELSE callback_calls[c].ack
    IN  /\ other = 0
        /\ \/ calls = 1 /\ c \notin DOMAIN event_callbacks
           \/ /\ calls = 0
              /\ c \in DOMAIN event_callbacks
              /\ ~(IF kind = "ack" THEN event_callbacks[c].ack ELSE event_callbacks[c].timeout)

\* C31: when a package is acknowledged (or timed out), exactly the ack (or
\* timeout) callbacks of the events packed into that package are invoked,
\* each once; callbacks of events still queued or carried by a package that
\* is not resolved are not invoked; events without callbacks in the package
\* change nothing of this.
C31_CallbacksOfThePackage ==
    \A c \in DOMAIN callback_calls :
        IF c \in DOMAIN carried_by /\ carried_by[c] \in DOMAIN resolved
        THEN ResolvedAs(c, IF resolved[carried_by[c]] = "acked" THEN "ack" ELSE "timeout")
        ELSE /\ callback_calls[c].ack = 0
             /\ callback_calls[c].timeout = 0
             /\ c \in DOMAIN event_callbacks
             /\ (c \notin DOMAIN carried_by) <=> (c \in QueuedCallbacks)

\* C31 witness: the first package carried an event with callbacks and one
\* without and was acknowledged, the ack callback ran; another event with
\* callbacks went out in the second package, which is still pending, and
\* none of its callbacks ran.
C31_Witness ==
    /\ Len(sent_packages) = 2
    /\ Len(sent_packages[1].events) = 2
    /\ DOMAIN carried_by = {1, 2}
    /\ carried_by[1] = 1 /\ carried_by[2] = 2
    /\ 1 \in DOMAIN resolved /\ resolved[1] = "acked"
    /\ 2 \notin DOMAIN resolved
    /\ callback_calls[1].ack = 1
    /\ callback_calls[2].ack = 0 /\ callback_calls[2].timeout = 0

(***************************************************************************)
(* Properties of the event loop (SpecEvents)                               *)
(***************************************************************************)
\* C33: events are passed to the handler in the order they appear within a
\* package and, across packages, in the order _recv accepted the packages;
\* each accepted event is taken from the queue once (the events taken so
\* far followed by the queue are the accepted events in order); and an
\* event whose type has no handler is discarded and the event loop goes on.
C33_IncomingEventOrder ==
    /\ taken_events \o incoming_event_queue = event_wire
    /\ handled_events = SelectSeq(taken_events, HasEventType)
    /\ event_loop # "failed"

\* C33 witness: packages 2 and 1 were accepted in this order and the loop
\* has taken all six events, two of them without a handler
C33_Witness ==
    /\ event_wire = <<21, 22, 23, 11, 12, 13>>
    /\ taken_events = event_wire
    /\ handled_events = <<21, 23, 11, 13>>
    /\ event_loop = "running"

(***************************************************************************)
(* Properties of the versions the game loop produces (SpecMachine)         *)
(***************************************************************************)
\* C34: the start from Paused, every tick and stop push one update each,
\* with time_order one above the state's: the time_orders in the cache go
\* up by one from entry to entry, and when the loop has exited after k
\* ticks the state is Paused with time_order t0 + k + 2 (t0 = 0 here).
C34_GameLoopVersioning ==
    /\ \A i \in 1..(Len(update_cache) - 1) :
           TimeOrder(update_cache[i + 1]) = SqnAdd(TimeOrder(update_cache[i]), 1)
    /\ thread_pc["loop"] = "exited" =>
           /\ game_state["game_status"] = Num(Paused)
           /\ TimeOrder(game_state) = ticks + 2

(***************************************************************************)
(* Properties of the store with shared nested dictionaries (SpecShared)    *)
(***************************************************************************)
\* C36: building a package reads the store only: a call of
\* _create_next_package leaves the value of the game state and the value
\* of every cached update as they were, nested dictionaries included.
C36_PackageBuildReadsOnly ==
    [][packages_built' # packages_built =>
          /\ Resolve(heap', shared_game_state') = Resolve(heap, shared_game_state)
          /\ \A i \in 1..Len(shared_update_cache) :
                 Resolve(heap', shared_update_cache'[i]) = Resolve(heap, shared_update_cache[i])]_vars

(***************************************************************************)
(* Properties of the deltas for lagging clients (SpecLag)                  *)
(***************************************************************************)
\* C37: the update built for a client that reported time_order t (not 0),
\* applied to the state the server had at time_order t, gives the server's
\* current state, also when updates newer than t have left the cache.
C37_DeltaComplete ==
    lag_package.built =>
        Radd(lag_package.update, lag_history[lag_package.time_order + 1]) = game_state

(***************************************************************************)
(* Properties of the sender tasks (SpecClient)                             *)
(***************************************************************************)
\* the connection record of ServerConnection.loop has one sender while Connected
ServerOneSender ==
    (server_loop = "running" /\ in_connections /\ status = "Connected") => send_loops = 1

\* the connection of ClientConnection.loop has one sender while Connected
ClientOneSender ==
    (client_loop = "running" /\ client_status = "Connected") => client_send_loops = 1

\* C38: while the loop operates a connection and its status is Connected,
\* exactly one _send_loop task of the connection is alive, on the server
\* and on the client.
C38_OneSenderWhileConnected ==
    /\ ServerOneSender
    /\ ClientOneSender

(***************************************************************************)
(* Properties of acknowledged server events (SpecAck)                      *)
(***************************************************************************)
\* C39: when the package of an event dispatched through
\* Server.dispatch_event is acknowledged, no error is raised in _recv; a
\* call without ack_callback invokes nothing, and a call with one invokes
\* it with the connection on which the event was acknowledged.
C39_ServerAckCallback ==
    /\ ack_error = "none"
    /\ \A k \in DOMAIN ack_invocations :
           LET invocation == ack_invocations[k]
               call == dispatch_calls[invocation.connection][invocation.call]
           IN  /\ invocation.called = call.ack_callback
               /\ invocation.called => invocation.argument = invocation.connection

(***************************************************************************)
(* Properties of the acknowledgement of retried events (SpecRetry)         *)
(***************************************************************************)
\* the dispatches that go back to the application's call r
Chain(r) == {i \in DOMAIN dispatch_log : RootOf(i) = r}

\* the package that carried the callbacks of sequence c was resolved as acknowledged
Acknowledged(c) ==
    /\ c \in DOMAIN carried_by
    /\ carried_by[c] \in DOMAIN resolved
    /\ resolved[carried_by[c]] = "acked"

\* the dispatches whose ack callback was invoked
AckInvocations(dispatches) ==
    {i \in dispatches : /\ dispatch_log[i].callback_sequence # 0
                        /\ callback_calls[dispatch_log[i].callback_sequence].ack > 0}

\* C40: over the chain of a client event dispatched with retries (the
\* original dispatch and its re-dispatches) the ack callback is invoked at
\* most once, and a dispatch of the chain that was resolved as acknowledged
\* is the last of the chain: the event is not dispatched again after it.
C40_AckAcrossRetries ==
    \A r \in AppDispatches :
        /\ Cardinality(AckInvocations(Chain(r))) <= 1
        /\ \A i \in Chain(r) :
               LET c == dispatch_log[i].callback_sequence
               IN  /\ c # 0 => callback_calls[c].ack <= 1
                   /\ Acknowledged(c) =>
                          /\ Redispatches(c) = {}
                          /\ \A j \in Chain(r) : j <= i

\* C40 witness: the event was dispatched with retries and an ack callback,
\* its first dispatch timed out, and the re-dispatch was acknowledged and
\* its ack callback invoked once
C40_Witness ==
    \E i \in DOMAIN dispatch_log :
        LET d == dispatch_log[i]
        IN  /\ d.parent # 0
            /\ d.ack_callback
            /\ TimedOut(d.parent)
            /\ Acknowledged(d.callback_sequence)
            /\ callback_calls[d.callback_sequence].ack = 1
            /\ callback_calls[d.parent].ack = 0

====
